---------------------------- MODULE Spec2Model ----------------------------
(***************************************************************************)
(* A model of the ARM-template comparison engine of the Azure Firewall     *)
(* policy manager (src/src/libraries/CompareUtils.py and the helpers it    *)
(* uses from CommonUtils.py).                                              *)
(*                                                                         *)
(* JSON trees are tagged records:                                          *)
(*   [t |-> "null"]                    None                                *)
(*   [t |-> "str",  v |-> <<c1,..>>]   a string, as its sequence of        *)
(*                                     characters (one-character strings); *)
(*                                     the resource-type literals of the   *)
(*                                     code are single atoms               *)
(*   [t |-> "num",  v |-> n]           an integer                          *)
(*   [t |-> "bool", v |-> b]           a boolean                           *)
(*   [t |-> "list", v |-> <<x1,..>>]   a list                              *)
(*   [t |-> "dict", v |-> f]           a mapping, f a function from keys   *)
(*                                     (TLA+ strings) to JSON trees        *)
(***************************************************************************)
EXTENDS Integers, Sequences, FiniteSets, TLC

(***************************************************************************)
(* JSON values                                                             *)
(***************************************************************************)
Null == [t |-> "null"]

Str(s) == [t |-> "str", v |-> s]

Num(n) == [t |-> "num", v |-> n]

Bool(b) == [t |-> "bool", v |-> b]

List(s) == [t |-> "list", v |-> s]

Dict(f) == [t |-> "dict", v |-> f]

EmptyDict == Dict([k \in {} |-> Null])

IsStr(x) == x.t = "str"

IsList(x) == x.t = "list"

IsDict(x) == x.t = "dict"

Keys(d) == DOMAIN d.v

HasKey(d, k) == IsDict(d) /\ k \in Keys(d)

\* The mapping d with key k set to x (added when absent).
DictSet(d, k, x) == Dict([j \in Keys(d) \cup {k} |-> IF j = k THEN x ELSE d.v[j]])

\* The mapping d without key k.
DictDel(d, k) == Dict([j \in Keys(d) \ {k} |-> d.v[j]])

Range(s) == {s[i] : i \in DOMAIN s}

(***************************************************************************)
(* Characters and the regular expressions of the name normalizer           *)
(***************************************************************************)
Digits == {"0", "1", "2", "3", "4", "5", "6", "7", "8", "9"}

LowerLetters == {"a", "b", "c", "d", "e", "f", "g", "h", "i", "j", "k", "l", "m",
                 "n", "o", "p", "q", "r", "s", "t", "u", "v", "w", "x", "y", "z"}

\* [a-z0-9]
HashChars == LowerLetters \cup Digits

\* \s
Whitespace == {" ", "\t", "\n"}

\* ['"]
Quotes == {"'", "\""}

\* \d{8}: the number of digits of a date token.
DateDigits == 8

\* s[i..j] are all in the character class cls (true of an empty range).
AllIn(s, i, j, cls) == \A k \in i..j : s[k] \in cls

\* _\d{8}$ matches s.
EndsWithDate(s) ==
    /\ Len(s) >= DateDigits + 1
    /\ s[Len(s) - DateDigits] = "_"
    /\ AllIn(s, Len(s) - DateDigits + 1, Len(s), Digits)

\* [-_]\d{8}_[a-z0-9]+$ matches s from position p.
DateHashAt(s, p) ==
    /\ p >= 1
    /\ p + DateDigits + 2 <= Len(s)
    /\ s[p] \in {"-", "_"}
    /\ AllIn(s, p + 1, p + DateDigits, Digits)
    /\ s[p + DateDigits + 1] = "_"
    /\ AllIn(s, p + DateDigits + 2, Len(s), HashChars)

\* re.sub(r'_\d{8}$', '', name)
StripDate(s) == IF EndsWithDate(s) THEN SubSeq(s, 1, Len(s) - DateDigits - 1) ELSE s

\* re.sub(r'[-_]\d{8}_[a-z0-9]+$', '', name): the leftmost match is removed.
StripDateHash(s) ==
    LET ps == {p \in 1..Len(s) : DateHashAt(s, p)}
    IN IF ps = {} THEN s
       ELSE LET p == CHOOSE q \in ps : \A r \in ps : q <= r
            IN SubSeq(s, 1, p - 1)

\* remove_date_suffix on a string (a falsy name gives "").
remove_date_suffix(s) == IF s = <<>> THEN <<>> ELSE StripDateHash(StripDate(s))

(***************************************************************************)
(* normalize_resource_name: the format-expression pattern                  *)
(***************************************************************************)
FormatPrefix == <<"[", "f", "o", "r", "m", "a", "t", "(">>

StartsWith(s, pre) == Len(s) >= Len(pre) /\ SubSeq(s, 1, Len(pre)) = pre

\* The position after \s* read from position i.
RECURSIVE SkipWs(_, _)
SkipWs(s, i) == IF i <= Len(s) /\ s[i] \in Whitespace THEN SkipWs(s, i + 1) ELSE i

\* The position of the first quote at or after i, Len(s)+1 when there is none.
RECURSIVE NextQuote(_, _)
NextQuote(s, i) == IF i > Len(s) \/ s[i] \in Quotes THEN i ELSE NextQuote(s, i + 1)

\* ['"]([^'"]*)['"] read at position i.
ReadQuoted(s, i) ==
    IF i <= Len(s) /\ s[i] \in Quotes /\ NextQuote(s, i + 1) <= Len(s)
    THEN [ok |-> TRUE, text |-> SubSeq(s, i + 1, NextQuote(s, i + 1) - 1),
          next |-> NextQuote(s, i + 1) + 1]
    ELSE [ok |-> FALSE, text |-> <<>>, next |-> i]

\* (?:\s*,\s*['"]([^'"]*)['"])* read at position i: the position after the last
\* repetition, whether there was one, and the text the group holds (the last
\* repetition's: a repeated group keeps its last capture only).
RECURSIVE ReadMoreArgs(_, _, _, _)
ReadMoreArgs(s, i, any, last) ==
    LET j == SkipWs(s, i)
        q == ReadQuoted(s, SkipWs(s, j + 1))
    IN IF j <= Len(s) /\ s[j] = "," /\ q.ok
       THEN ReadMoreArgs(s, q.next, TRUE, q.text)
       ELSE [next |-> i, any |-> any, last |-> last]

\* re.match(format_pattern, name_value): matched, group(1), group(2), group(3).
MatchFormat(s) ==
    LET none == [ok |-> FALSE, fmt |-> <<>>, p1 |-> <<>>, has3 |-> FALSE, p3 |-> <<>>]
        q1   == ReadQuoted(s, SkipWs(s, Len(FormatPrefix) + 1))
        c    == SkipWs(s, q1.next)
        q2   == ReadQuoted(s, SkipWs(s, c + 1))
        more == ReadMoreArgs(s, q2.next, FALSE, <<>>)
        e    == SkipWs(s, more.next)
    IN IF ~StartsWith(s, FormatPrefix) THEN none
       ELSE IF ~q1.ok THEN none
       ELSE IF ~(c <= Len(s) /\ s[c] = ",") THEN none
       ELSE IF ~q2.ok THEN none
       ELSE IF ~(e + 1 <= Len(s) /\ s[e] = ")" /\ s[e + 1] = "]") THEN none
       ELSE [ok |-> TRUE, fmt |-> q1.text, p1 |-> q2.text,
             has3 |-> more.any, p3 |-> more.last]

\* str.replace(pat, rep) for a non-empty pat, scanning from position i.
RECURSIVE ReplaceFrom(_, _, _, _)
ReplaceFrom(s, pat, rep, i) ==
    IF i > Len(s) THEN <<>>
    ELSE IF i + Len(pat) - 1 <= Len(s) /\ SubSeq(s, i, i + Len(pat) - 1) = pat
         THEN rep \o ReplaceFrom(s, pat, rep, i + Len(pat))
         ELSE <<s[i]>> \o ReplaceFrom(s, pat, rep, i + 1)

Replace(s, pat, rep) == ReplaceFrom(s, pat, rep, 1)

\* The placeholder {i}, for the indices the code can reach (params has at most
\* two elements).
Placeholder(i) == IF i = 0 THEN <<"{", "0", "}">> ELSE <<"{", "1", "}">>

\* The params list: group(2), then group(3) when it is truthy.
FormatParams(m) == IF m.has3 /\ m.p3 # <<>> THEN <<m.p1, m.p3>> ELSE <<m.p1>>

\* The substitution loop over enumerate(params).
FormatResult(m) ==
    LET ps == FormatParams(m)
        r0 == Replace(m.fmt, Placeholder(0), ps[1])
    IN IF Len(ps) = 2 THEN Replace(r0, Placeholder(1), ps[2]) ELSE r0

\* Lines 108-126, given the match m of the format pattern on s.
NormalizeMatched(s, m) == IF m.ok THEN FormatResult(m) ELSE remove_date_suffix(s)

\* normalize_resource_name on the characters of a string.
NormalizeNameStr(s) == NormalizeMatched(s, MatchFormat(s))

\* normalize_resource_name: values that are not strings are returned as they are.
normalize_resource_name(x) == IF IsStr(x) THEN Str(NormalizeNameStr(x.v)) ELSE x

(***************************************************************************)
(* Python's ordering of the values a sort can meet                         *)
(***************************************************************************)
\* The characters of the model in code-point order.
Alphabet == <<"\t", "\n", " ", "\"", "'", "(", ")", ",", "-", ".", "/",
              "0", "1", "2", "3", "4", "5", "6", "7", "8", "9", ":",
              "A", "B", "C", "D", "E", "F", "G", "H", "I", "J", "K", "L", "M",
              "N", "O", "P", "Q", "R", "S", "T", "U", "V", "W", "X", "Y", "Z",
              "[", "]", "_",
              "a", "b", "c", "d", "e", "f", "g", "h", "i", "j", "k", "l", "m",
              "n", "o", "p", "q", "r", "s", "t", "u", "v", "w", "x", "y", "z",
              "{", "}">>

\* The rank of a character; an atom that is no single character (a resource-type
\* literal, which begins with "M") ranks with "M".
CharRank(c) ==
    IF c \in Range(Alphabet) THEN CHOOSE i \in DOMAIN Alphabet : Alphabet[i] = c
    ELSE CHOOSE i \in DOMAIN Alphabet : Alphabet[i] = "M"

\* a < b on strings: lexicographic by code point.
StrLt(a, b) ==
    LET m    == IF Len(a) < Len(b) THEN Len(a) ELSE Len(b)
        diff == {i \in 1..m : a[i] # b[i]}
    IN IF diff = {} THEN Len(a) < Len(b)
       ELSE LET i == CHOOSE j \in diff : \A k \in diff : j <= k
            IN CharRank(a[i]) < CharRank(b[i])

IsNumeric(x) == x.t \in {"num", "bool"}

\* The number a num or bool stands for (True is 1, False is 0).
NumVal(x) == IF x.t = "num" THEN x.v ELSE IF x.v THEN 1 ELSE 0

\* x == y in Python.
PyEq(x, y) == x = y \/ (IsNumeric(x) /\ IsNumeric(y) /\ NumVal(x) = NumVal(y))

\* x < y raises TypeError: the operands are not two strings, two numbers
\* (bool is a number) or two lists whose first differing elements compare.
RECURSIVE PyLtRaises(_, _)
PyLtRaises(x, y) ==
    IF IsStr(x) /\ IsStr(y) THEN FALSE
    ELSE IF IsNumeric(x) /\ IsNumeric(y) THEN FALSE
    ELSE IF IsList(x) /\ IsList(y)
         THEN LET m    == IF Len(x.v) < Len(y.v) THEN Len(x.v) ELSE Len(y.v)
                  diff == {i \in 1..m : ~PyEq(x.v[i], y.v[i])}
              IN IF diff = {} THEN FALSE
                 ELSE LET i == CHOOSE j \in diff : \A k \in diff : j <= k
                      IN PyLtRaises(x.v[i], y.v[i])
    ELSE TRUE

\* x < y, when it does not raise.
RECURSIVE PyLt(_, _)
PyLt(x, y) ==
    IF IsStr(x) /\ IsStr(y) THEN StrLt(x.v, y.v)
    ELSE IF IsNumeric(x) /\ IsNumeric(y) THEN NumVal(x) < NumVal(y)
    ELSE IF IsList(x) /\ IsList(y)
         THEN LET m    == IF Len(x.v) < Len(y.v) THEN Len(x.v) ELSE Len(y.v)
                  diff == {i \in 1..m : ~PyEq(x.v[i], y.v[i])}
              IN IF diff = {} THEN Len(x.v) < Len(y.v)
                 ELSE LET i == CHOOSE j \in diff : \A k \in diff : j <= k
                      IN PyLt(x.v[i], y.v[i])
    ELSE FALSE

\* sorted(keys) raises: sorting two or more keys compares, directly or through a
\* chain, every pair of them, so it raises when some pair does not compare.
SortRaises(keys) ==
    /\ Len(keys) >= 2
    /\ \E i, j \in DOMAIN keys : i # j /\ PyLtRaises(keys[i], keys[j])

\* sorted(items, key=...): items in the stable ascending order of keys, where
\* keys[i] is the key of items[i].
SortedBy(items, keys) ==
    LET pos(i) == 1 + Cardinality({j \in DOMAIN keys :
                        \/ PyLt(keys[j], keys[i])
                        \/ (~PyLt(keys[i], keys[j]) /\ j < i)})
    IN [n \in DOMAIN items |-> items[CHOOSE i \in DOMAIN items : pos(i) = n]]

(***************************************************************************)
(* The recursive passes over a JSON tree                                   *)
(***************************************************************************)
\* normalize_resource_names_in_json: the value of every key 'name' goes through
\* normalize_resource_name (and is not descended into).
RECURSIVE normalize_resource_names_in_json(_)
normalize_resource_names_in_json(x) ==
    IF IsDict(x)
    THEN Dict([k \in Keys(x) |-> IF k = "name" THEN normalize_resource_name(x.v[k])
                                 ELSE normalize_resource_names_in_json(x.v[k])])
    ELSE IF IsList(x)
    THEN List([i \in DOMAIN x.v |-> normalize_resource_names_in_json(x.v[i])])
    ELSE x

\* keys_to_ignore of compare_resource_collections.
KeysToIgnore == {"dependsOn"}

RemoveKeysListMutant(x, keys) == x

\* The list branch of remove_ignored_keys.
RECURSIVE remove_ignored_keys(_, _)
RemoveKeysList(x, keys) == List([i \in DOMAIN x.v |-> remove_ignored_keys(x.v[i], keys)])

\* remove_ignored_keys
remove_ignored_keys(x, keys) ==
    IF IsDict(x)
    THEN Dict([k \in Keys(x) \ keys |-> remove_ignored_keys(x.v[k], keys)])
    ELSE IF IsList(x) THEN RemoveKeysList(x, keys)
    ELSE x

AllDicts(s) == \A i \in DOMAIN s : IsDict(s[i])

AllHaveName(s) == \A i \in DOMAIN s : HasKey(s[i], "name")

\* isinstance(item, (str, int, float, bool)) for every item
AllPrimitive(s) == \A i \in DOMAIN s : s[i].t \in {"str", "num", "bool"}

NameKeys(s) == [i \in DOMAIN s |-> s[i].v["name"]]

\* handle_empty_and_missing on a list: sorted by 'name' when every item is a
\* mapping with a 'name', sorted by value when every item is a primitive, as it
\* is otherwise. The items themselves are not descended into.
HandleList(s) ==
    IF AllDicts(s) /\ AllHaveName(s) THEN SortedBy(s, NameKeys(s))
    ELSE IF AllPrimitive(s) THEN SortedBy(s, s)
    ELSE s

\* handle_empty_and_missing
RECURSIVE handle_empty_and_missing(_)
handle_empty_and_missing(x) ==
    IF IsList(x) THEN List(HandleList(x.v))
    ELSE IF IsDict(x) THEN Dict([k \in Keys(x) |-> handle_empty_and_missing(x.v[k])])
    ELSE IF x = Null THEN List(<<>>)
    ELSE x

\* handle_empty_and_missing raises (a sort meets keys that do not compare).
RECURSIVE HandleEmptyRaises(_)
HandleEmptyRaises(x) ==
    IF IsList(x)
    THEN IF AllDicts(x.v) /\ AllHaveName(x.v) THEN SortRaises(NameKeys(x.v))
         ELSE AllPrimitive(x.v) /\ SortRaises(x.v)
    ELSE IF IsDict(x) THEN \E k \in Keys(x) : HandleEmptyRaises(x.v[k])
    ELSE FALSE

\* priority_keys of normalize_keys_for_comparison, in order.
PriorityKeys == <<"name", "id", "type">>

\* The key normalize_keys_for_comparison sorts a list of mappings by: the first
\* priority key every item has; "" when there is none (or the list is empty).
SortKeyOf(s) ==
    LET common == {i \in DOMAIN PriorityKeys :
                     \A n \in DOMAIN s : PriorityKeys[i] \in Keys(s[n])}
    IN IF s = <<>> \/ common = {} THEN ""
       ELSE PriorityKeys[CHOOSE i \in common : \A j \in common : i <= j]

\* normalize_keys_for_comparison
RECURSIVE normalize_keys_for_comparison(_)
normalize_keys_for_comparison(x) ==
    IF IsDict(x) THEN Dict([k \in Keys(x) |-> normalize_keys_for_comparison(x.v[k])])
    ELSE IF IsList(x)
    THEN LET s      == x.v
             byKey  == AllDicts(s) /\ SortKeyOf(s) # ""
             sorted == IF byKey
                       THEN SortedBy(s, [i \in DOMAIN s |-> s[i].v[SortKeyOf(s)]])
                       ELSE s
         IN List([i \in DOMAIN s |-> normalize_keys_for_comparison(sorted[i])])
    ELSE x

\* normalize_keys_for_comparison raises (a sort meets keys that do not compare).
RECURSIVE NormalizeKeysRaises(_)
NormalizeKeysRaises(x) ==
    IF IsDict(x) THEN \E k \in Keys(x) : NormalizeKeysRaises(x.v[k])
    ELSE IF IsList(x)
    THEN LET s == x.v
         IN \/ /\ AllDicts(s)
               /\ SortKeyOf(s) # ""
               /\ SortRaises([i \in DOMAIN s |-> s[i].v[SortKeyOf(s)]])
            \/ \E i \in DOMAIN s : NormalizeKeysRaises(s[i])
    ELSE FALSE

(***************************************************************************)
(* DeepDiff(t1, t2, ignore_order=True, report_repetition=True,             *)
(* verbose_level=2), the library call of the two diff sites.  A diff is    *)
(* the set of its entries; an entry has the report category (kind), the    *)
(* path from the root, and the two values (Null where a side has none).    *)
(***************************************************************************)
PKey(k) == [key |-> k]

PIdx(i) == [idx |-> i]

Entry(kind, path, old, new) == [kind |-> kind, path |-> path, old |-> old, new |-> new]

\* Two trees hash alike under ignore_order: equal up to the order of the items
\* of every list (repetitions count).
RECURSIVE Equiv(_, _)
Equiv(a, b) ==
    IF a.t # b.t THEN FALSE
    ELSE IF IsDict(a)
    THEN Keys(a) = Keys(b) /\ \A k \in Keys(a) : Equiv(a.v[k], b.v[k])
    ELSE IF IsList(a)
    THEN /\ Len(a.v) = Len(b.v)
         /\ \A i \in DOMAIN a.v :
              Cardinality({j \in DOMAIN a.v : Equiv(a.v[j], a.v[i])})
                = Cardinality({j \in DOMAIN b.v : Equiv(b.v[j], a.v[i])})
    ELSE a = b

\* The first position of s holding an item like x (0 when there is none).
FirstLike(s, x) ==
    LET hits == {i \in DOMAIN s : Equiv(s[i], x)}
    IN IF hits = {} THEN 0 ELSE CHOOSE i \in hits : \A j \in hits : i <= j

CountLike(s, x) == Cardinality({i \in DOMAIN s : Equiv(s[i], x)})

\* Two lists, order ignored: the items of one side that no item of the other is
\* like are removed or added (each position reported); an item on both sides a
\* different number of times is a repetition change, reported at its first
\* position in t1.  Positions are written from 0, as Python's.
ListDiff(a, b, path) ==
    {Entry("iterable_item_removed", Append(path, PIdx(i - 1)), a[i], Null) :
        i \in {n \in DOMAIN a : CountLike(b, a[n]) = 0}}
    \cup
    {Entry("iterable_item_added", Append(path, PIdx(j - 1)), Null, b[j]) :
        j \in {n \in DOMAIN b : CountLike(a, b[n]) = 0}}
    \cup
    {Entry("repetition_change", Append(path, PIdx(i - 1)), a[i], a[i]) :
        i \in {n \in DOMAIN a : /\ FirstLike(a, a[n]) = n
                                /\ CountLike(b, a[n]) > 0
                                /\ CountLike(b, a[n]) # CountLike(a, a[n])}}

RECURSIVE DeepDiffAt(_, _, _)
DeepDiffAt(a, b, path) ==
    IF a.t # b.t THEN {Entry("type_changes", path, a, b)}
    ELSE IF IsDict(a)
    THEN {Entry("dictionary_item_removed", Append(path, PKey(k)), a.v[k], Null) :
             k \in Keys(a) \ Keys(b)}
         \cup
         {Entry("dictionary_item_added", Append(path, PKey(k)), Null, b.v[k]) :
             k \in Keys(b) \ Keys(a)}
         \cup
         UNION {DeepDiffAt(a.v[k], b.v[k], Append(path, PKey(k))) :
                  k \in Keys(a) \cap Keys(b)}
    ELSE IF IsList(a) THEN ListDiff(a.v, b.v, path)
    ELSE IF a = b THEN {} ELSE {Entry("values_changed", path, a, b)}

DeepDiff(a, b) == DeepDiffAt(a, b, <<>>)

\* The entries of a diff in one report category, as the mapping path -> value
\* the code iterates over.
OfKind(diff, kind) == {e \in diff : e.kind = kind}

(***************************************************************************)
(* LogicalResourceIndexer                                                  *)
(***************************************************************************)
RcgType == Str(<<"Microsoft.Network/firewallPolicies/ruleCollectionGroups">>)

PolicyType == Str(<<"Microsoft.Network/firewallPolicies">>)

\* str(x) of an f-string, for the values the model's resources use as type and
\* name: strings, None, booleans and the numbers 0..9.
PyStr(x) ==
    IF IsStr(x) THEN x.v
    ELSE IF x = Null THEN <<"N", "o", "n", "e">>
    ELSE IF x.t = "bool" THEN (IF x.v THEN <<"T", "r", "u", "e">>
                                       ELSE <<"F", "a", "l", "s", "e">>)
    ELSE IF x.t = "num" /\ x.v \in 0..9 THEN <<Alphabet[12 + x.v]>>
    ELSE IF IsList(x) THEN <<"[", "]">>
    ELSE <<"{", "}">>

\* s.split(sep)[-1]
LastSegment(s, sep) ==
    LET at == {i \in DOMAIN s : s[i] = sep}
    IN IF at = {} THEN s
       ELSE SubSeq(s, (CHOOSE i \in at : \A j \in at : j <= i) + 1, Len(s))

\* s.split(sep)[0]
FirstSegment(s, sep) ==
    LET at == {i \in DOMAIN s : s[i] = sep}
    IN IF at = {} THEN s
       ELSE SubSeq(s, 1, (CHOOSE i \in at : \A j \in at : i <= j) - 1)

\* No identifier (None).
NoId == <<>>

\* '/' in resource_name, for a name of any type that supports `in`.
SlashIn(n) ==
    IF IsStr(n) THEN "/" \in Range(n.v)
    ELSE IF IsList(n) THEN \E i \in DOMAIN n.v : n.v[i] = Str(<<"/">>)
    ELSE IF IsDict(n) THEN "/" \in Keys(n)
    ELSE FALSE

\* Lines 569-575 raise for type ty and normalized name n: `'/' in name` on a
\* name that is None, a number or a boolean, or .split on a name that is not a
\* string.
NameRaises(ty, n) ==
    \/ ty = RcgType /\ n.t \in {"null", "num", "bool"}
    \/ ty = RcgType /\ ~IsStr(n) /\ SlashIn(n)
    \/ ty = PolicyType /\ ~IsStr(n)

\* extract_logical_resource_identifier raises.
IdRaises(r) ==
    /\ IsDict(r) /\ "type" \in Keys(r) /\ "name" \in Keys(r)
    /\ NameRaises(r.v["type"], normalize_resource_name(r.v["name"]))

RcgIdMutant(n) == <<"R", "C", "G", ":">> \o n

\* The identifier of a rule-collection group whose normalized name is n.
RcgId(n) == <<"R", "C", "G", ":">> \o LastSegment(n, "/")

\* Lines 568-578: the identifier for type ty and normalized name n.
IdFor(ty, n) ==
    IF ty = RcgType /\ SlashIn(n) THEN RcgId(n.v)
    ELSE IF ty = PolicyType
    THEN <<"P", "o", "l", "i", "c", "y", ":">> \o FirstSegment(n.v, "-")
    ELSE PyStr(ty) \o <<":">> \o PyStr(n)

\* extract_logical_resource_identifier
extract_logical_resource_identifier(r) ==
    IF ~IsDict(r) \/ "type" \notin Keys(r) \/ "name" \notin Keys(r) THEN NoId
    ELSE IdFor(r.v["type"], normalize_resource_name(r.v["name"]))

\* The identifier of each resource of a list, in order.
IdSeq(rs) == [i \in DOMAIN rs |-> extract_logical_resource_identifier(rs[i])]

LastWithMutant(ids, id) == CHOOSE i \in DOMAIN ids : ids[i] = id /\ \A j \in DOMAIN ids : ids[j] = id => i <= j

\* The position whose resource the index holds for id: the last one with it.
LastWith(ids, id) == CHOOSE i \in DOMAIN ids : ids[i] = id /\ \A j \in DOMAIN ids : ids[j] = id => j <= i

\* Lines 593-603, given the identifiers ids of the resources rs: identifier ->
\* resource, a later resource replacing an earlier one with the same identifier.
IndexByMutant(rs, ids) == [id \in Range(ids) |-> rs[LastWith(ids, id)]]

IndexBy(rs, ids) == [id \in Range(ids) \ {NoId} |-> rs[LastWith(ids, id)]]

\* extract_logical_resources
extract_logical_resources(rs) == IndexBy(rs, IdSeq(rs))

\* extract_logical_resources raises on some resource of the list.
IndexRaises(rs) == \E i \in DOMAIN rs : IdRaises(rs[i])

(***************************************************************************)
(* Paths with names and minimal trees (the helpers nested in               *)
(* compare_resource_collections)                                           *)
(***************************************************************************)
\* A part of a parsed path: a key (PKey), an index (PIdx) or the name of a list
\* element (PName, holding the value of its `name`).
PName(v) == [name |-> v]

IsIdx(p) == "idx" \in DOMAIN p

IsKeyPart(p) == "key" \in DOMAIN p

\* re.findall(r"\['([^']+)\']|\[(\d+)\]", path_str): the keys and indices of a
\* path; an empty key matches neither alternative and is dropped.
RECURSIVE Tokens(_)
Tokens(path) ==
    IF path = <<>> THEN <<>>
    ELSE IF IsKeyPart(Head(path)) /\ Head(path).key = "" THEN Tokens(Tail(path))
    ELSE <<Head(path)>> \o Tokens(Tail(path))

\* sub in s, for two strings.
Contains(s, sub) ==
    \E i \in 0..(Len(s) - Len(sub)) : SubSeq(s, i + 1, i + Len(sub)) = sub

\* 'name' in s
ContainsName(s) == Contains(s, <<"n", "a", "m", "e">>)

\* Lines 650-651 raise for the list element x: `'name' in x` raises for None, a
\* number and a boolean, and x['name'] raises for a string that contains
\* "name" and for a list that holds "name".
NameTestRaises(x) ==
    \/ x.t \in {"null", "num", "bool"}
    \/ IsStr(x) /\ ContainsName(x.v)
    \/ IsList(x) /\ \E i \in DOMAIN x.v : x.v[i] = Str(<<"n", "a", "m", "e">>)

\* The part appended for an element named v: a name that is a number is an int
\* and is taken for an index by everything that reads the path.
NamePart(v) == IF v.t = "num" THEN PIdx(v.v) ELSE PName(v)

\* The parsed path that starts with part and goes on as rest.
ParseStep(part, rest) == [raised |-> rest.raised, parts |-> <<part>> \o rest.parts]

\* The loop of parse_path_with_names over the tokens left, at current_obj.
RECURSIVE ParseFrom(_, _)
ParseFrom(tokens, current_obj) ==
    IF tokens = <<>> THEN [raised |-> FALSE, parts |-> <<>>]
    ELSE IF IsKeyPart(Head(tokens))
    THEN ParseStep(Head(tokens),
                   ParseFrom(Tail(tokens),
                             IF ~IsDict(current_obj) THEN current_obj
                             ELSE IF Head(tokens).key \in Keys(current_obj)
                             THEN current_obj.v[Head(tokens).key]
                             ELSE EmptyDict))
    ELSE IF IsList(current_obj) /\ Head(tokens).idx < Len(current_obj.v)
    THEN IF NameTestRaises(current_obj.v[Head(tokens).idx + 1])
         THEN [raised |-> TRUE, parts |-> <<>>]
         ELSE ParseStep(IF HasKey(current_obj.v[Head(tokens).idx + 1], "name")
                        THEN NamePart(current_obj.v[Head(tokens).idx + 1].v["name"])
                        ELSE Head(tokens),
                        ParseFrom(Tail(tokens), current_obj.v[Head(tokens).idx + 1]))
    ELSE ParseStep(Head(tokens), ParseFrom(Tail(tokens), current_obj))

\* parse_path_with_names
parse_path_with_names(path, obj) == ParseFrom(Tokens(path), obj).parts

\* parse_path_with_names raises.
ParsePathRaises(path, obj) == ParseFrom(Tokens(path), obj).raised

\* path_to_string: an int part is written [i], any other part ['text'] with
\* the text of str(part).
path_to_string(parts) ==
    [i \in DOMAIN parts |->
        IF IsIdx(parts[i]) \/ IsKeyPart(parts[i]) THEN parts[i]
        ELSE [quoted |-> PyStr(parts[i].name)]]

\* A dict of a minimal tree: its keys are parts (keys and names).  {} is MEmpty.
MEmpty == [t |-> "mdict", v |-> <<>>]

IsMDict(x) == x.t = "mdict"

\* isinstance(d, dict), for a node of a minimal tree
IsAnyDict(d) == IsDict(d) \/ IsMDict(d)

\* A dict that was put into a minimal tree as a value, keyed by parts.
AsM(d) ==
    IF IsMDict(d) THEN d
    ELSE [t |-> "mdict", v |-> [p \in {PKey(k) : k \in Keys(d)} |-> d.v[p.key]]]

\* d[part] = x
MSet(m, part, x) ==
    [t |-> "mdict", v |-> [p \in DOMAIN m.v \cup {part} |-> IF p = part THEN x ELSE m.v[p]]]

\* while len(d) <= key: d.append({})
Grow(s, key) ==
    [i \in 1..(IF Len(s) > key THEN Len(s) ELSE key + 1) |->
        IF i <= Len(s) THEN s[i] ELSE MEmpty]

\* set_nested(d, path, value): the tree d after the call.  lastInt is
\* isinstance(path[-1], int) of the whole path.  A step that finds the wrong
\* type of container returns, and what was created before it stays.
RECURSIVE SetNested(_, _, _, _)
SetNested(d, path, value, lastInt) ==
    IF Len(path) = 1
    THEN IF IsIdx(path[1])
         THEN IF ~IsList(d) THEN d
              ELSE List([Grow(d.v, path[1].idx) EXCEPT ![path[1].idx + 1] = value])
         ELSE IF ~IsAnyDict(d) THEN d
              ELSE MSet(AsM(d), path[1], value)
    ELSE IF IsIdx(path[1])
         THEN IF ~IsList(d) THEN d
              ELSE List([Grow(d.v, path[1].idx) EXCEPT ![path[1].idx + 1] =
                            SetNested(@, Tail(path), value, lastInt)])
         ELSE IF ~IsAnyDict(d) THEN d
              ELSE MSet(AsM(d), path[1],
                        SetNested(IF path[1] \in DOMAIN AsM(d).v THEN AsM(d).v[path[1]]
                                  ELSE IF lastInt THEN List(<<>>) ELSE MEmpty,
                                  Tail(path), value, lastInt))

\* set_nested(d, path, value) finds the wrong type of container at some step,
\* logs the warning and returns (lines 687-689, 694-696, 702-704, 708-710).
RECURSIVE Skips(_, _, _)
Skips(d, path, lastInt) ==
    IF IsIdx(path[1])
    THEN \/ ~IsList(d)
         \/ Len(path) > 1 /\ Skips(Grow(d.v, path[1].idx)[path[1].idx + 1], Tail(path), lastInt)
    ELSE \/ ~IsAnyDict(d)
         \/ Len(path) > 1
              /\ Skips(IF path[1] \in DOMAIN AsM(d).v THEN AsM(d).v[path[1]]
                       ELSE IF lastInt THEN List(<<>>) ELSE MEmpty,
                       Tail(path), lastInt)

\* set_nested
set_nested(d, path, value) ==
    IF path = <<>> THEN d ELSE SetNested(d, path, value, IsIdx(path[Len(path)]))

\* get_by_path: None when the path leaves the object.  A name is looked up as
\* a key, and no name of the trees compared here is a key of them.
RECURSIVE get_by_path(_, _)
get_by_path(obj, path) ==
    IF path = <<>> THEN obj
    ELSE IF IsList(obj) /\ IsIdx(path[1])
    THEN IF path[1].idx < Len(obj.v) THEN get_by_path(obj.v[path[1].idx + 1], Tail(path))
         ELSE Null
    ELSE IF IsDict(obj) /\ IsKeyPart(path[1]) /\ path[1].key \in Keys(obj)
    THEN get_by_path(obj.v[path[1].key], Tail(path))
    ELSE Null

\* The report categories whose paths are parsed, and those parsed against the
\* export resource (lines 739-752 and 826-828); the others are parsed against
\* the import resource.
ParsedKinds ==
    {"values_changed", "dictionary_item_added", "dictionary_item_removed",
     "iterable_item_added", "iterable_item_removed"}

AddedKinds == {"dictionary_item_added", "iterable_item_added"}

ReferenceOf(e, import_obj, export_obj) ==
    IF e.kind \in AddedKinds THEN export_obj ELSE import_obj

\* The parsed path of the entry e.
ParsedPath(e, import_obj, export_obj) ==
    parse_path_with_names(e.path, ReferenceOf(e, import_obj, export_obj))

\* Lines 731-756 raise for the entry e: its path does not parse, or it parses
\* to no part at all and set_nested reads path[-1] of an empty list.
EntryRaises(e, import_obj, export_obj) ==
    /\ e.kind \in ParsedKinds
    /\ \/ ParsePathRaises(e.path, ReferenceOf(e, import_obj, export_obj))
       \/ ParsedPath(e, import_obj, export_obj) = <<>>

\* The items of the report in the categories kinds, in the order of the report.
RECURSIVE ItemsOf(_, _)
ItemsOf(items, kinds) ==
    IF items = <<>> THEN <<>>
    ELSE (IF Head(items).kind \in kinds THEN <<Head(items)>> ELSE <<>>)
         \o ItemsOf(Tail(items), kinds)

\* The items that write to the import tree and to the export tree, in the
\* order of lines 731-756.
ImportItems(items) ==
    ItemsOf(items, {"values_changed"}) \o ItemsOf(items, {"dictionary_item_removed"})
    \o ItemsOf(items, {"iterable_item_removed"})

ExportItems(items) ==
    ItemsOf(items, {"values_changed"}) \o ItemsOf(items, {"dictionary_item_added"})
    \o ItemsOf(items, {"iterable_item_added"})

\* The value the entry e sets in the tree of one side.
ValueFor(e, side, path, import_obj, export_obj) ==
    IF e.kind = "dictionary_item_removed" THEN get_by_path(import_obj, path)
    ELSE IF e.kind = "dictionary_item_added" THEN get_by_path(export_obj, path)
    ELSE IF side = "import" THEN e.old
    ELSE e.new

\* The tree m of one side after the set_nested calls of the items.
RECURSIVE MinimalFrom(_, _, _, _, _)
MinimalFrom(m, items, side, import_obj, export_obj) ==
    IF items = <<>> THEN m
    ELSE MinimalFrom(set_nested(m, ParsedPath(Head(items), import_obj, export_obj),
                                ValueFor(Head(items), side,
                                         ParsedPath(Head(items), import_obj, export_obj),
                                         import_obj, export_obj)),
                     Tail(items), side, import_obj, export_obj)

\* extract_minimal_diff, for the items of diff_dict in their order.
extract_minimal_diff(import_obj, export_obj, items) ==
    [import_minimal |-> MinimalFrom(MEmpty, ImportItems(items), "import", import_obj, export_obj),
     export_minimal |-> MinimalFrom(MEmpty, ExportItems(items), "export", import_obj, export_obj)]

\* extract_minimal_diff raises.
ExtractRaises(import_obj, export_obj, items) ==
    \E i \in DOMAIN items : EntryRaises(items[i], import_obj, export_obj)

\* isinstance(p, str), for a part of a parsed path
IsStrPart(p) == IsKeyPart(p) \/ ("name" \in DOMAIN p /\ IsStr(p.name))

\* part in s, for a list s: some item equals the index or the name.
ListHolds(s, part) ==
    \E i \in DOMAIN s :
        \/ IsIdx(part) /\ s[i] = Num(part.idx)
        \/ "name" \in DOMAIN part /\ s[i] = part.name

Fixed(tree) == [raised |-> FALSE, tree |-> tree]

FixRaised(tree) == [raised |-> TRUE, tree |-> tree]

\* Lines 809-810: if parsed_path[-1] in obj: obj[parsed_path[-1]] = value.
\* The test raises for a number, a boolean and None, and for an index in a
\* string; the assignment raises for a string and for a list that holds the
\* part but is not indexed by it.
FixApply(obj, last, value) ==
    IF IsAnyDict(obj)
    THEN Fixed(IF last \in DOMAIN AsM(obj).v THEN MSet(AsM(obj), last, value) ELSE obj)
    ELSE IF IsList(obj)
    THEN IF ~ListHolds(obj.v, last) THEN Fixed(obj)
         ELSE IF IsIdx(last) /\ last.idx < Len(obj.v)
         THEN Fixed(List([obj.v EXCEPT ![last.idx + 1] = value]))
         ELSE FixRaised(obj)
    ELSE IF IsStr(obj)
    THEN IF IsIdx(last) \/ (IsStrPart(last) /\ ~IsKeyPart(last) /\ Contains(obj.v, last.name.v))
         THEN FixRaised(obj) ELSE Fixed(obj)
    ELSE FixRaised(obj)

\* The list obj with the fixed item r at position i, the dict obj with the
\* fixed value r at part.
FixedItem(obj, i, r) == [raised |-> r.raised, tree |-> List([obj.v EXCEPT ![i] = r.tree])]

FixedValue(obj, part, r) == [raised |-> r.raised, tree |-> MSet(AsM(obj), part, r.tree)]

\* Lines 799-810: the walk along parsed_path[:-1] and the assignment.  The
\* walk stops at the first part it cannot follow; when that is the last part
\* of parsed_path[:-1], i has its final value and the assignment is tried on
\* the object reached so far.
RECURSIVE FixAt(_, _, _)
FixAt(obj, path, value) ==
    IF Len(path) = 1 THEN FixApply(obj, path[1], value)
    ELSE IF IsIdx(path[1]) /\ IsList(obj) /\ path[1].idx < Len(obj.v)
    THEN FixedItem(obj, path[1].idx + 1, FixAt(obj.v[path[1].idx + 1], Tail(path), value))
    ELSE IF IsStrPart(path[1]) /\ IsAnyDict(obj) /\ path[1] \in DOMAIN AsM(obj).v
    THEN FixedValue(obj, path[1], FixAt(AsM(obj).v[path[1]], Tail(path), value))
    ELSE IF Len(path) = 2 THEN FixApply(obj, path[2], value)
    ELSE Fixed(obj)

\* Lines 794-824 for one tree and one values_changed item: nothing is done for
\* a path of fewer than two parts (i stays -1).
FixMinimal(tree, path, value) ==
    IF Len(path) < 2 THEN Fixed(tree) ELSE FixAt(tree, path, value)

\* Lines 794-824 for one tree and the values_changed items in their order.
RECURSIVE FixAll(_, _, _, _)
FixAll(r, items, side, import_obj) ==
    IF items = <<>> \/ r.raised THEN r
    ELSE FixAll(FixMinimal(r.tree, parse_path_with_names(Head(items).path, import_obj),
                           IF side = "import" THEN Head(items).old ELSE Head(items).new),
                Tail(items), side, import_obj)

\* new_path of lines 789-835: the path of the entry e in processed_diff.
NewPath(e, import_obj, export_obj) ==
    IF e.kind \in ParsedKinds THEN path_to_string(ParsedPath(e, import_obj, export_obj))
    ELSE e.path

\* processed_diff: every item under its new path; of the items of one category
\* with one new path, the last one stays.
ProcessedDiff(items, import_obj, export_obj) ==
    {[items[i] EXCEPT !.path = NewPath(items[i], import_obj, export_obj)] :
        i \in {n \in DOMAIN items :
                 ~\E m \in DOMAIN items :
                     /\ m > n
                     /\ items[m].kind = items[n].kind
                     /\ NewPath(items[m], import_obj, export_obj)
                          = NewPath(items[n], import_obj, export_obj)}}

(***************************************************************************)
(* compare_resource_collections                                            *)
(***************************************************************************)
\* A matched resource as it is diffed: names normalized, ignored keys removed,
\* empty and missing handled.
Prepared(r) ==
    handle_empty_and_missing(
        remove_ignored_keys(normalize_resource_names_in_json(r), KeysToIgnore))

\* Preparing a matched resource raises.
PreparedRaises(r) ==
    HandleEmptyRaises(remove_ignored_keys(normalize_resource_names_in_json(r), KeysToIgnore))

\* The diff of a matched pair.
MatchedDiff(ri, re) == DeepDiff(Prepared(ri), Prepared(re))

ImportOnlyIdsMutant(il, el) == DOMAIN il

\* import_only_ids
ImportOnlyIds(il, el) == DOMAIN il \ DOMAIN el

ExportOnlyIdsMutant(il, el) == DOMAIN el

\* export_only_ids
ExportOnlyIds(il, el) == DOMAIN el \ DOMAIN il

\* common_ids
CommonIds(il, el) == DOMAIN il \cap DOMAIN el

\* The diff of every matched pair of the indexes il and el.
PairDiffs(il, el) == [id \in CommonIds(il, el) |-> MatchedDiff(il[id], el[id])]

\* Lines 777-847: the pairs with a non-empty diff go to values_changed, with
\* the names of the two resources and the diff.
ValuesChanged(il, el, diffs) ==
    [id \in {c \in DOMAIN diffs : diffs[c] # {}} |->
        [import_name |-> il[id].v["name"], export_name |-> el[id].v["name"],
         diff |-> diffs[id]]]

\* Lines 778-835 raise for a prepared pair and its diff: the path of some
\* entry does not parse.
DiffRaises(import_resource_, export_resource_, d) ==
    \E e \in d : EntryRaises(e, import_resource_, export_resource_)

\* Lines 760-835 raise for some matched pair.
PairsRaise(il, el) ==
    \E id \in CommonIds(il, el) :
        \/ PreparedRaises(il[id])
        \/ PreparedRaises(el[id])
        \/ DiffRaises(Prepared(il[id]), Prepared(el[id]), MatchedDiff(il[id], el[id]))

\* compare_resource_collections raises.
CompareResourcesRaises(irs, ers) ==
    \/ IndexRaises(irs)
    \/ IndexRaises(ers)
    \/ PairsRaise(extract_logical_resources(irs), extract_logical_resources(ers))

\* Lines 624-853, given the two indexes.
CompareIndexed(il, el) ==
    [import_only    |-> [id \in ImportOnlyIds(il, el) |-> il[id]],
     export_only    |-> [id \in ExportOnlyIds(il, el) |-> el[id]],
     values_changed |-> ValuesChanged(il, el, PairDiffs(il, el))]

\* compare_resource_collections
compare_resource_collections(irs, ers) ==
    CompareIndexed(extract_logical_resources(irs), extract_logical_resources(ers))

(***************************************************************************)
(* compare_arm_templates                                                   *)
(***************************************************************************)
\* Why a file does or does not load.  not_found, permission and bad_json are the
\* exceptions load_json_file catches (FileNotFoundError, PermissionError,
\* json.JSONDecodeError); is_directory (IsADirectoryError) and bad_encoding
\* (UnicodeDecodeError: the bytes are not UTF-8) are raised by open() and by
\* json.load() and are not caught.
CaughtStatuses == {"not_found", "permission", "bad_json"}

UncaughtStatuses == {"is_directory", "bad_encoding"}

FileStatuses == {"ok"} \cup CaughtStatuses \cup UncaughtStatuses

LoadCatchesMutant(f) == FALSE

\* load_json_file returns (does not raise).
LoadCatches(f) == f.status \in {"ok"} \cup CaughtStatuses

\* load_json_file: the parsed document, None when the exception was caught.
load_json_file(f) == IF f.status = "ok" THEN f.data ELSE Null

\* `not x` in Python.
Falsy(x) ==
    \/ x = Null
    \/ x.t \in {"str", "list", "dict"} /\ x.v = <<>>
    \/ x.t = "num" /\ x.v = 0
    \/ x.t = "bool" /\ x.v = FALSE

\* pop('resources', []) of the normalized document, and what is left of it.
ResourcesOf(doc) == IF "resources" \in Keys(doc) THEN doc.v["resources"] ELSE List(<<>>)

RestOf(doc) == DictDel(doc, "resources")

\* Iterating the resources value: the items of a list, nothing for a mapping
\* or a string (their keys and characters are no mappings).
ResourceItems(x) == IF IsList(x) THEN x.v ELSE <<>>

\* Iterating the resources value raises (None, a number or a boolean).
ResourceItemsRaise(x) == x.t \in {"null", "num", "bool"}

\* get_resource_display_name
get_resource_display_name(r) ==
    IF ~IsDict(r) THEN Str(<<"U", "n", "k", "n", "o", "w", "n">>)
    ELSE IF "name" \notin Keys(r) THEN Str(<<"U", "n", "k", "n", "o", "w", "n">>)
    ELSE IF IsStr(r.v["name"]) /\ StartsWith(r.v["name"].v, FormatPrefix)
    THEN normalize_resource_name(r.v["name"])
    ELSE r.v["name"]

\* The display name of a changed pair.
ChangeDisplayName(cd) ==
    IF normalize_resource_name(cd.import_name) = normalize_resource_name(cd.export_name)
    THEN normalize_resource_name(cd.import_name)
    ELSE Str(PyStr(cd.import_name) \o <<" ", "<", "-", ">", " ">> \o PyStr(cd.export_name))

\* A mapping (a list, a dict) cannot key a dict.
Unhashable(x) == x.t \in {"list", "dict"}

\* The dicts one of the formatting loops can build from the mapping m
\* (identifier -> item): one entry per display name, holding an item of that
\* display name.  The loop runs in the iteration order of a set of strings,
\* which differs from run to run, and a later item replaces an earlier one with
\* the same display name.
FormattedBy(m, names) ==
    {f \in [Range(names) -> Range(m)] :
        \A d \in Range(names) : \E id \in DOMAIN m : m[id] = f[d] /\ names[id] = d}

\* The display name of every item of import_only or export_only.
ResourceNames(m) == [id \in DOMAIN m |-> get_resource_display_name(m[id])]

\* The display name of every item of values_changed.
ChangeNames(m) == [id \in DOMAIN m |-> ChangeDisplayName(m[id])]

\* formatted_import_only and formatted_export_only (lines 290-297).
FormattedResources(m) == FormattedBy(m, ResourceNames(m))

\* formatted_values_changed (lines 300-314).
FormattedChanges(m) == FormattedBy(m, ChangeNames(m))

\* Keying a dict by a display name raises.
FormatRaises(names) == \E id \in DOMAIN names : Unhashable(names[id])

\* The entries the metadata diff puts into import_only, export_only and
\* values_changed (path -> value).
MetaImportOnly(diff) ==
    {[path |-> e.path, value |-> e.old] :
        e \in OfKind(diff, "dictionary_item_removed") \cup OfKind(diff, "iterable_item_removed")}

MetaExportOnly(diff) ==
    {[path |-> e.path, value |-> e.new] :
        e \in OfKind(diff, "dictionary_item_added") \cup OfKind(diff, "iterable_item_added")}

MetaValuesChanged(diff) ==
    {[path |-> e.path, import |-> e.old, export |-> e.new] : e \in OfKind(diff, "values_changed")}

\* An empty differences category.
NoCategory == [meta |-> {}, resources |-> <<>>]

\* The report of a comparison that did not load both files.
FailureReport(idata, edata) ==
    [success |-> FALSE, error |-> TRUE, has_differences |-> FALSE,
     import_data_loaded |-> idata # Null, export_data_loaded |-> edata # Null,
     has_differences_key |-> FALSE,
     import_only |-> NoCategory, export_only |-> NoCategory, values_changed |-> NoCategory]

HasDifferencesMutant(diff, rd) == diff # {} \/ DOMAIN rd # {}

\* has_differences
HasDifferences(diff, rd) ==
    \/ diff # {}
    \/ DOMAIN rd.import_only # {}
    \/ DOMAIN rd.export_only # {}
    \/ DOMAIN rd.values_changed # {}

\* The report of a completed comparison; fi, fe and fv are the formatted
\* resource dicts.
SuccessReport(diff, rd, fi, fe, fv) ==
    [success |-> TRUE, error |-> FALSE, has_differences |-> HasDifferences(diff, rd),
     import_data_loaded |-> TRUE, export_data_loaded |-> TRUE,
     has_differences_key |-> HasDifferences(diff, rd),
     import_only    |-> [meta |-> MetaImportOnly(diff), resources |-> fi],
     export_only    |-> [meta |-> MetaExportOnly(diff), resources |-> fe],
     values_changed |-> [meta |-> MetaValuesChanged(diff), resources |-> fv]]

(***************************************************************************)
(* The documents the model compares                                        *)
(***************************************************************************)
\* The most resources a document of the general family holds.
MaxRes == 2

\* The deepest nesting of the compared field of a matched pair.
MaxDepth == 2

DateA == <<"_", "2", "0", "2", "5", "0", "6", "0", "1">>

HashA == <<"_", "a", "b", "1", "2", "c", "d">>

DateB == <<"_", "2", "0", "2", "5", "0", "7", "1", "5">>

HashB == <<"_", "e", "f", "3", "4", "g", "h">>

\* FW1_20250601_ab12cd and FW1_20250715_ef34gh
NameA == <<"F", "W", "1">> \o DateA \o HashA

NameB == <<"F", "W", "1">> \o DateB \o HashB

NameBase == <<"F", "W", "1">>

IpGroupType == Str(<<"Microsoft.Network/ipGroups">>)

Resource(ty, nm, props) == Dict([type |-> ty, name |-> nm, properties |-> props])

Sku(tier) == Dict([sku |-> Str(<<tier>>)])

\* The resources of the general family: two policies of one LogicalId and
\* different content, two IP groups named like the policy (one LogicalId,
\* different content), and a resource without a name.
ResPool ==
    {Resource(PolicyType, Str(NameA), Sku("s")),
     Resource(PolicyType, Str(NameBase), Sku("p")),
     Resource(IpGroupType, Str(NameBase), Sku("s")),
     Resource(IpGroupType, Str(NameBase), Sku("p")),
     Dict([type |-> IpGroupType])}

\* Sequences over S of length at most n.
RECURSIVE SeqsUpTo(_, _)
SeqsUpTo(S, n) ==
    IF n = 0 THEN {<<>>}
    ELSE SeqsUpTo(S, n - 1) \cup {Append(q, x) : q \in SeqsUpTo(S, n - 1), x \in S}

Meta(v) == [contentVersion |-> Str(<<v>>)]

\* A document: metadata and a resources list.
Doc(meta, rs) == DictSet(Dict(meta), "resources", List(rs))

\* The general family: every resources list over ResPool, under one metadata.
ListDocs == {Doc(Meta("1"), rs) : rs \in SeqsUpTo(ResPool, MaxRes)}

Tags(s) == List([i \in DOMAIN s |-> Str(<<s[i]>>)])

\* The metadata family: documents that differ outside `resources` (a changed
\* value, a changed type, an added key, an added list item, a repeated list
\* item), the empty document, a document without `resources`, and documents
\* whose resources make the comparison raise (a policy whose name is null, a
\* resource holding a list that mixes strings and numbers, two resources that
\* differ in an item of a list of numbers).
MetaDocs ==
    LET one == <<Resource(PolicyType, Str(NameBase), Sku("s"))>>
    IN {Doc(Meta("2"), one),
        Doc([contentVersion |-> Num(1)], one),
        Doc([contentVersion |-> Str(<<"1">>), tags |-> Tags(<<"a">>)], one),
        Doc([contentVersion |-> Str(<<"1">>), tags |-> Tags(<<"a", "a">>)], one),
        Doc([contentVersion |-> Str(<<"1">>), tags |-> Tags(<<"a", "b">>)], one),
        EmptyDict,
        Dict(Meta("1")),
        Doc(Meta("1"), <<Resource(PolicyType, Null, Sku("s"))>>),
        Doc(Meta("1"), <<Resource(IpGroupType, Str(NameBase),
                                  Dict([ports |-> List(<<Str(<<"8">>), Num(1)>>)]))>>),
        Doc(Meta("1"), <<Resource(IpGroupType, Str(NameBase), Dict([ports |-> List(<<Num(1)>>)]))>>),
        Doc(Meta("1"), <<Resource(IpGroupType, Str(NameBase), Dict([ports |-> List(<<Num(2)>>)]))>>)}

\* The files holding the documents of D, and the files that do not load.
Files(D) ==
    {[status |-> "ok", data |-> d] : d \in D}
    \cup {[status |-> s, data |-> Null] : s \in FileStatuses \ {"ok"}}

(***************************************************************************)
(* The matched-pair family: two documents of one resource each, of one     *)
(* type and one shape, each side with its own name, rule field and         *)
(* dependsOn                                                               *)
(***************************************************************************)
\* The shapes of the path from `properties` down to the rule: each step goes
\* into a mapping ("map") or into an element of a list of named mappings
\* ("list", as properties.ruleCollections[i].rules[j] does twice).
Shapes == SeqsUpTo({"map", "list"}, MaxDepth)

\* x at the end of a path of the given shape.
RECURSIVE Wrap(_, _)
Wrap(x, shape) ==
    IF shape = <<>> THEN x
    ELSE IF Head(shape) = "map" THEN Dict([inner |-> Wrap(x, Tail(shape))])
    ELSE Dict([name |-> Str(<<"c">>), rules |-> List(<<Wrap(x, Tail(shape))>>)])

\* A rule: destinationFqdns is absent (no key), null, [] or ["x"]; dependsOn is
\* absent, ["a"] or ["b"].
Rule(fq, dep) ==
    LET base == Dict([name |-> Str(<<"r">>), ruleType |-> Str(<<"NetworkRule">>)])
        withF == IF fq = "absent" THEN base
                 ELSE DictSet(base, "destinationFqdns",
                              IF fq = "null" THEN Null
                              ELSE IF fq = "empty" THEN List(<<>>)
                              ELSE Tags(<<"x">>))
    IN IF dep = "absent" THEN withF ELSE DictSet(withF, "dependsOn", Tags(<<dep>>))

\* The rules of the family, as <<destinationFqdns, dependsOn>>.
RuleChoices ==
    {<<"empty", "absent">>, <<"null", "absent">>, <<"absent", "absent">>,
     <<"one", "absent">>, <<"empty", "a">>, <<"empty", "b">>, <<"one", "a">>}

\* The policy names: FW1_20250601_ab12cd, FW1_20250715_ef34gh and FW1.
PolicyNames == {NameA, NameB, NameBase}

\* [format('{0}/{1}', 'policy', 'R')]
FormatName(policy) ==
    FormatPrefix \o <<"'", "{", "0", "}", "/", "{", "1", "}", "'", ",", " ", "'">>
    \o policy \o <<"'", ",", " ", "'", "R", "'", ")", "]">>

\* policy/R
QualifiedName(policy) == policy \o <<"/", "R">>

\* The names of a resource of type ty: a policy name for a policy; policy/R for
\* a rule-collection group, as a plain string or, for one of them, as the format
\* expression a transpiled template carries.
NameChoices(ty) ==
    IF ty = PolicyType THEN PolicyNames
    ELSE {QualifiedName(p) : p \in PolicyNames} \cup {FormatName(NameB)}

PairDoc(ty, nm, shape, rule) ==
    Doc(Meta("1"), <<Resource(ty, Str(nm), Wrap(Rule(rule[1], rule[2]), shape))>>)

\* The files of the documents of one type and shape.
PairFiles(ty, shape) ==
    {[status |-> "ok", data |-> PairDoc(ty, nm, shape, rule)] :
        nm \in NameChoices(ty), rule \in RuleChoices}

VARIABLES
    importFile,        \* the import file: [status, data]
    exportFile,        \* the export file
    pc,                \* where compare_arm_templates is: start, loaded, metadata,
                       \* resources, done (returned), raised (an exception left it)
    import_data,       \* what load_json_file returned
    export_data,
    import_resources,  \* the popped `resources` values
    export_resources,
    diff,              \* the metadata diff
    resource_diff,     \* what compare_resource_collections returned
    result,            \* the report
    name_value,        \* the argument of normalize_resource_name
    normalized,        \* what it returned
    renormalized,      \* what it returned for its own result
    import_resource,   \* a matched pair, prepared for the diff
    export_resource,
    diff_items,        \* the items of diff.to_dict(), in its order
    import_minimal,    \* the two minimal trees
    export_minimal,
    processed_diff,    \* the diff under its new paths
    today,             \* datetime.now().strftime("%Y%m%d")
    comparison_dir,    \* Paths.COMPARISON_DIR: file name -> what the file holds
    save_result,       \* the arguments of the last save_comparison_result call
    save_to_file,
    summary,           \* what it returned
    saves,             \* the number of calls so far
    matches,           \* handle_compare_arm: the pairs find_matching_templates returned
    include_diff,      \* args.include_diff
    save_results,      \* args.save_results ("absent" when args has none)
    match_index,       \* the number of pairs the loop has finished
    successful_comparisons,
    run_log,           \* what the run has logged and printed, in order
    returned,          \* what handle_compare_arm returned
    data,              \* the argument of handle_empty_and_missing
    handled,           \* what it returned
    objects,           \* the dicts and lists that exist, by address
    objects_before,    \* the same when the call was made
    called,            \* the function called and its arguments
    call_result        \* what it returned

\* The state of a comparison, of a name normalization.
cmpVars == <<importFile, exportFile, import_data, export_data, import_resources,
             export_resources, diff, resource_diff, result>>

nameVars == <<name_value, normalized, renormalized>>

pathVars == <<import_resource, export_resource, diff_items, import_minimal, export_minimal,
              processed_diff>>

saveVars == <<today, comparison_dir, save_result, save_to_file, summary, saves>>

runVars == <<matches, include_diff, save_results, match_index, successful_comparisons, run_log,
             returned>>

\* The state of a call of handle_empty_and_missing, and of a call of one of the
\* passes on objects.
sortVars == <<data, handled>>

heapVars == <<objects, objects_before, called, call_result>>

funVars == <<sortVars, heapVars>>

vars == <<pc, cmpVars, nameVars, pathVars, saveVars, runVars, funVars>>

\* What a comparison leaves alone.
otherVars == <<nameVars, pathVars, saveVars, runVars, funVars>>

\* No name is being normalized.
NameIdle == name_value = Null /\ normalized = Null /\ renormalized = Null

\* No value yet.
Unset == [t |-> "unset"]

\* No pass is being called.
HeapIdle ==
    /\ objects = <<>> /\ objects_before = <<>>
    /\ called = Unset /\ call_result = Unset

FunIdle == data = Unset /\ handled = Unset /\ HeapIdle

\* No pair is being processed.
PathIdle ==
    /\ import_resource = Null /\ export_resource = Null
    /\ diff_items = <<>>
    /\ import_minimal = Null /\ export_minimal = Null
    /\ processed_diff = {}

NoResourceDiff == [import_only |-> <<>>, export_only |-> <<>>, values_changed |-> <<>>]

\* No report yet.
NoReport ==
    [success |-> FALSE, error |-> FALSE, has_differences |-> FALSE,
     import_data_loaded |-> FALSE, export_data_loaded |-> FALSE,
     has_differences_key |-> FALSE,
     import_only |-> NoCategory, export_only |-> NoCategory, values_changed |-> NoCategory]

Start ==
    /\ pc = "start"
    /\ import_data = Null /\ export_data = Null
    /\ import_resources = Null /\ export_resources = Null
    /\ diff = {}
    /\ resource_diff = NoResourceDiff
    /\ result = NoReport

\* Nothing has been saved.
SaveIdle ==
    /\ today = <<>>
    /\ comparison_dir = <<>>
    /\ save_result = Null /\ save_to_file = FALSE
    /\ summary = Null
    /\ saves = 0

\* handle_compare_arm is not running.
RunIdle ==
    /\ matches = <<>>
    /\ include_diff = FALSE /\ save_results = "absent"
    /\ match_index = 0
    /\ successful_comparisons = 0
    /\ run_log = <<>>
    /\ returned = Null

\* No comparison is running.
CmpIdle ==
    /\ importFile = [status |-> "not_found", data |-> Null]
    /\ exportFile = [status |-> "not_found", data |-> Null]
    /\ Start

\* Any two files of the general and the metadata family.
Init ==
    /\ importFile \in Files(ListDocs \cup MetaDocs)
    /\ exportFile \in Files(ListDocs \cup MetaDocs)
    /\ Start
    /\ NameIdle
    /\ FunIdle
    /\ PathIdle
    /\ SaveIdle
    /\ RunIdle

\* Two files of the matched-pair family, of one resource type and one shape.
InitPair ==
    /\ \E ty \in {PolicyType, RcgType}, shape \in Shapes :
         /\ importFile \in PairFiles(ty, shape)
         /\ exportFile \in PairFiles(ty, shape)
    /\ Start
    /\ NameIdle
    /\ FunIdle
    /\ PathIdle
    /\ SaveIdle
    /\ RunIdle

\* Lines 219-227, given what the two loads returned.
Loaded(idata, edata) ==
    /\ import_data' = idata
    /\ export_data' = edata
    /\ IF Falsy(idata) \/ Falsy(edata)
       THEN /\ result' = FailureReport(idata, edata)
            /\ pc' = "done"
       ELSE /\ pc' = "loaded"
            /\ UNCHANGED result

\* Lines 215-227: both files are loaded; a failure report is returned when
\* either value is falsy.
LoadFiles ==
    /\ pc = "start"
    /\ IF ~LoadCatches(importFile) \/ ~LoadCatches(exportFile)
       THEN /\ pc' = "raised"
            /\ UNCHANGED <<import_data, export_data, result>>
       ELSE Loaded(load_json_file(importFile), load_json_file(exportFile))
    /\ UNCHANGED <<otherVars, importFile, exportFile, import_resources, export_resources, diff, resource_diff>>

\* Lines 233-279, given the two documents with their names normalized.
SplitAndDiff(inn, enn) ==
    IF NormalizeKeysRaises(RestOf(inn)) \/ NormalizeKeysRaises(RestOf(enn))
    THEN /\ pc' = "raised"
         /\ UNCHANGED <<import_resources, export_resources, diff>>
    ELSE /\ import_resources' = ResourcesOf(inn)
         /\ export_resources' = ResourcesOf(enn)
         /\ diff' = DeepDiff(normalize_keys_for_comparison(RestOf(inn)),
                             normalize_keys_for_comparison(RestOf(enn)))
         /\ pc' = "metadata"

\* Lines 229-279: names are normalized, `resources` is popped from each
\* document, and what is left is normalized and diffed.  dict() of a document
\* that is no mapping raises.
CompareMetadata ==
    /\ pc = "loaded"
    /\ IF ~IsDict(import_data) \/ ~IsDict(export_data)
       THEN /\ pc' = "raised"
            /\ UNCHANGED <<import_resources, export_resources, diff>>
       ELSE SplitAndDiff(normalize_resource_names_in_json(import_data),
                         normalize_resource_names_in_json(export_data))
    /\ UNCHANGED <<otherVars, importFile, exportFile, import_data, export_data, resource_diff, result>>

\* Line 282: the call of compare_resource_collections.
CompareResources ==
    /\ pc = "metadata"
    /\ IF \/ ResourceItemsRaise(import_resources)
          \/ ResourceItemsRaise(export_resources)
          \/ CompareResourcesRaises(ResourceItems(import_resources),
                                    ResourceItems(export_resources))
       THEN /\ pc' = "raised"
            /\ UNCHANGED resource_diff
       ELSE /\ resource_diff' = compare_resource_collections(ResourceItems(import_resources),
                                                             ResourceItems(export_resources))
            /\ pc' = "resources"
    /\ UNCHANGED <<otherVars, importFile, exportFile, import_data, export_data, import_resources,
                   export_resources, diff, result>>

\* Lines 284-346: the resource differences are keyed by display name and the
\* report is built.
BuildReport ==
    /\ pc = "resources"
    /\ IF \/ FormatRaises(ResourceNames(resource_diff.import_only))
          \/ FormatRaises(ResourceNames(resource_diff.export_only))
          \/ FormatRaises(ChangeNames(resource_diff.values_changed))
       THEN /\ pc' = "raised"
            /\ UNCHANGED result
       ELSE \E fi \in FormattedResources(resource_diff.import_only),
               fe \in FormattedResources(resource_diff.export_only),
               fv \in FormattedChanges(resource_diff.values_changed) :
                /\ result' = SuccessReport(diff, resource_diff, fi, fe, fv)
                /\ pc' = "done"
    /\ UNCHANGED <<otherVars, importFile, exportFile, import_data, export_data, import_resources,
                   export_resources, diff, resource_diff>>

Next == LoadFiles \/ CompareMetadata \/ CompareResources \/ BuildReport

Spec == Init /\ [][Next]_vars

SpecPair == InitPair /\ [][Next]_vars

(***************************************************************************)
(* Properties of the comparison of two resource lists                      *)
(***************************************************************************)
\* The LogicalIds of the resources of the list x.
IdsOf(x) ==
    {extract_logical_resource_identifier(r) : r \in Range(ResourceItems(x))} \ {NoId}

C2_EntryPerLogicalId ==
    (pc = "done" /\ result.success) =>
        /\ Cardinality(DOMAIN result.import_only.resources)
              = Cardinality(DOMAIN resource_diff.import_only)
        /\ Cardinality(DOMAIN result.export_only.resources)
              = Cardinality(DOMAIN resource_diff.export_only)

\* t holds the items of s in some order.
IsPermutation(s, t) ==
    /\ Len(s) = Len(t)
    /\ \A x \in Range(s) \cup Range(t) :
          Cardinality({i \in DOMAIN s : s[i] = x}) = Cardinality({i \in DOMAIN t : t[i] = x})

\* Both files hold a document with a resources list.
BothHaveResources ==
    /\ importFile.status = "ok" /\ exportFile.status = "ok"
    /\ IsDict(importFile.data) /\ IsDict(exportFile.data)
    /\ HasKey(importFile.data, "resources") /\ HasKey(exportFile.data, "resources")
    /\ IsList(importFile.data.v["resources"]) /\ IsList(exportFile.data.v["resources"])

\* C3: two documents whose resources lists are permutations of each other, and
\* that are otherwise equal, compare with has_differences = false, also when two
\* resources of the list have the same LogicalId.
C3_OrderInsensitive ==
    (/\ pc = "done"
     /\ BothHaveResources
     /\ RestOf(importFile.data) = RestOf(exportFile.data)
     /\ IsPermutation(importFile.data.v["resources"].v, exportFile.data.v["resources"].v))
    => (result.success /\ ~result.has_differences)

SomeCategoryNonEmpty ==
    \E c \in {result.import_only, result.export_only, result.values_changed} :
        c.meta # {} \/ DOMAIN c.resources # {}

\* C9: in the report of a completed comparison has_differences is true exactly
\* when import_only, export_only or values_changed has an entry, also when the
\* documents differ by the type of a value or by a repeated list item.
C9_HasDifferencesIffCategory ==
    (pc = "done" /\ result.success) => (result.has_differences <=> SomeCategoryNonEmpty)

\* C10: when a file cannot be read or parsed, whatever the reason, the
\* comparison does not raise and does no normalization or diffing: it returns
\* a report with success = false and an error.
C10_LoadFailureReported ==
    (importFile.status # "ok" \/ exportFile.status # "ok") =>
        /\ pc \in {"start", "done"}
        /\ pc = "done" => (~result.success /\ result.error)

(***************************************************************************)
(* Properties of the comparison of a matched pair                          *)
(***************************************************************************)
\* The resources of the import and of the export that have one LogicalId.
MatchedPairs ==
    {m \in Range(ResourceItems(import_resources)) \X Range(ResourceItems(export_resources)) :
        /\ extract_logical_resource_identifier(m[1]) # NoId
        /\ extract_logical_resource_identifier(m[1]) = extract_logical_resource_identifier(m[2])}

\* The pairs of names that differ at most by the date/hash suffix of the policy
\* name: two policy names, or two policy/R names of a rule-collection group.
SuffixVariants ==
    {<<p, q>> : p \in PolicyNames, q \in PolicyNames}
    \cup {<<QualifiedName(p), QualifiedName(q)>> : p \in PolicyNames, q \in PolicyNames}

\* C4: two documents whose matched resources are equal but for names that
\* differ only by the date/hash suffix of the policy name (a policy name, or
\* the policy segment of a '/'-qualified rule-collection-group name) compare
\* with has_differences = false.
C4_SuffixInsensitive ==
    (/\ pc = "done"
     /\ BothHaveResources
     /\ RestOf(importFile.data) = RestOf(exportFile.data)
     /\ Len(importFile.data.v["resources"].v) = 1
     /\ Len(exportFile.data.v["resources"].v) = 1
     /\ LET ri == importFile.data.v["resources"].v[1]
            re == exportFile.data.v["resources"].v[1]
        IN /\ HasKey(ri, "name") /\ HasKey(re, "name")
           /\ IsStr(ri.v["name"]) /\ IsStr(re.v["name"])
           /\ <<ri.v["name"].v, re.v["name"].v>> \in SuffixVariants
           /\ DictDel(ri, "name") = DictDel(re, "name")
     /\ IdsOf(import_resources) = IdsOf(export_resources))
    => (/\ result.success
        /\ ~result.has_differences
        /\ DOMAIN resource_diff.values_changed = {})

\* a and b are equal but for places where one holds null and the other an
\* empty list.
RECURSIVE SameButNullOrEmpty(_, _)
SameButNullOrEmpty(a, b) ==
    IF a.t # b.t THEN {a.t, b.t} = {"null", "list"} /\ (IsList(a) => a.v = <<>>)
                      /\ (IsList(b) => b.v = <<>>)
    ELSE IF IsDict(a)
    THEN Keys(a) = Keys(b) /\ \A k \in Keys(a) : SameButNullOrEmpty(a.v[k], b.v[k])
    ELSE IF IsList(a)
    THEN Len(a.v) = Len(b.v) /\ \A i \in DOMAIN a.v : SameButNullOrEmpty(a.v[i], b.v[i])
    ELSE a = b

\* C5: a matched pair of resources that are equal but for fields that are
\* null on one side and an empty list on the other, at any nesting depth
\* (inside the elements of lists too), has an empty diff and is not in
\* values_changed.
C5_NullEqualsEmptyList ==
    pc = "resources" =>
        \A m \in MatchedPairs :
            SameButNullOrEmpty(m[1], m[2])
            => extract_logical_resource_identifier(m[1])
                  \notin DOMAIN resource_diff.values_changed

\* a and b are equal but for mapping keys that are absent on one side and hold
\* an empty list on the other.
RECURSIVE SameButMissingOrEmpty(_, _)
SameButMissingOrEmpty(a, b) ==
    IF a.t # b.t THEN FALSE
    ELSE IF IsDict(a)
    THEN \A k \in Keys(a) \cup Keys(b) :
            IF k \in Keys(a) /\ k \in Keys(b) THEN SameButMissingOrEmpty(a.v[k], b.v[k])
            ELSE IF k \in Keys(a) THEN a.v[k] = List(<<>>)
            ELSE b.v[k] = List(<<>>)
    ELSE IF IsList(a)
    THEN Len(a.v) = Len(b.v) /\ \A i \in DOMAIN a.v : SameButMissingOrEmpty(a.v[i], b.v[i])
    ELSE a = b

\* C6: a matched pair of resources that are equal but for mapping keys that
\* are absent on one side and hold an empty list on the other has an empty diff
\* and is not in values_changed.
C6_MissingEqualsEmptyList ==
    pc = "resources" =>
        \A m \in MatchedPairs :
            SameButMissingOrEmpty(m[1], m[2])
            => extract_logical_resource_identifier(m[1])
                  \notin DOMAIN resource_diff.values_changed

\* a and b are equal but for the presence and the content of dependsOn keys.
RECURSIVE SameButDependsOn(_, _)
SameButDependsOn(a, b) ==
    IF a.t # b.t THEN FALSE
    ELSE IF IsDict(a)
    THEN /\ Keys(a) \ {"dependsOn"} = Keys(b) \ {"dependsOn"}
         /\ \A k \in Keys(a) \ {"dependsOn"} : SameButDependsOn(a.v[k], b.v[k])
    ELSE IF IsList(a)
    THEN Len(a.v) = Len(b.v) /\ \A i \in DOMAIN a.v : SameButDependsOn(a.v[i], b.v[i])
    ELSE a = b

\* No mapping of x has a dependsOn key.
RECURSIVE NoDependsOn(_)
NoDependsOn(x) ==
    IF IsDict(x) THEN "dependsOn" \notin Keys(x) /\ \A k \in Keys(x) : NoDependsOn(x.v[k])
    ELSE IF IsList(x) THEN \A i \in DOMAIN x.v : NoDependsOn(x.v[i])
    ELSE TRUE

\* C7: remove_ignored_keys of a resource has no dependsOn key at any depth and
\* is otherwise the resource, and a matched pair of resources that differ only
\* in the presence or the content of dependsOn is not in values_changed.
C7_DependsOnIgnored ==
    pc = "resources" =>
        /\ \A r \in Range(ResourceItems(import_resources))
                    \cup Range(ResourceItems(export_resources)) :
              /\ NoDependsOn(remove_ignored_keys(r, KeysToIgnore))
              /\ SameButDependsOn(r, remove_ignored_keys(r, KeysToIgnore))
        /\ \A m \in MatchedPairs :
              SameButDependsOn(m[1], m[2])
              => extract_logical_resource_identifier(m[1])
                    \notin DOMAIN resource_diff.values_changed

\* A matched pair whose rule, an element of a list, has a different dependsOn
\* on each side.
C7_Witness ==
    /\ pc = "resources"
    /\ Len(ResourceItems(import_resources)) = 1
    /\ Len(ResourceItems(export_resources)) = 1
    /\ LET ri == ResourceItems(import_resources)[1]
           re == ResourceItems(export_resources)[1]
       IN /\ ri # re
          /\ SameButDependsOn(ri, re)
          /\ ~NoDependsOn(ri) /\ ~NoDependsOn(re)
          /\ HasKey(ri.v["properties"], "rules")
    /\ resource_diff = NoResourceDiff

(***************************************************************************)
(* Totality of the comparison                                              *)
(***************************************************************************)
\* C11: once both files have loaded the comparison never raises, whatever the
\* two documents hold (a resource whose name is null, a list mixing strings and
\* numbers), and a comparison of two non-empty documents that has ended has
\* returned a report with success = true.
C11_ComparisonTotal ==
    (importFile.status = "ok" /\ exportFile.status = "ok") =>
        /\ pc # "raised"
        /\ (pc = "done" /\ ~Falsy(importFile.data) /\ ~Falsy(exportFile.data))
           => result.success

(***************************************************************************)
(* Name normalization on its own: normalize_resource_name applied to a     *)
(* name, then to its own result                                            *)
(***************************************************************************)
\* The most suffix tokens a plain name carries, the most arguments a format
\* expression has.
MaxTokens == 3

MaxArgs == 3

\* -20250613
HyphenDate == <<"-", "2", "0", "2", "5", "0", "6", "1", "3">>

\* The concatenation of the sequences of q.
RECURSIVE Flatten(_)
Flatten(q) == IF q = <<>> THEN <<>> ELSE Head(q) \o Flatten(Tail(q))

\* FW1 followed by up to MaxTokens tokens, each a date (_20250601), a date after
\* a hyphen (-20250613) or a hash (_ab12cd).
PlainNames == {NameBase \o Flatten(q) : q \in SeqsUpTo({DateA, HyphenDate, HashA}, MaxTokens)}

\* The template {0}/{1}/.../{n-1}.
RECURSIVE Template(_)
Template(n) ==
    IF n = 1 THEN <<"{", "0", "}">>
    ELSE Template(n - 1) \o <<"/", "{">> \o <<CHOOSE d \in Digits : CharRank(d) = CharRank("0") + n - 1>>
         \o <<"}">>

\* , 'a1', ..., 'an'
RECURSIVE QuotedArgs(_)
QuotedArgs(args) ==
    IF args = <<>> THEN <<>>
    ELSE <<",", " ", "'">> \o Head(args) \o <<"'">> \o QuotedArgs(Tail(args))

\* [format('template', 'a1', ..., 'an')]
FormatExpr(template, args) ==
    FormatPrefix \o <<"'">> \o template \o <<"'">> \o QuotedArgs(args) \o <<")", "]">>

\* The literal arguments of the format expressions.
ArgPool == {<<"A">>, <<"B">>, <<"C">>, <<"P">> \o DateA \o HashA}

\* The argument lists of n arguments.
ArgLists(n) == {q \in SeqsUpTo(ArgPool, n) : Len(q) = n}

\* The format expressions: the template of n placeholders with n arguments.
FormatNames == UNION {{FormatExpr(Template(n), q) : q \in ArgLists(n)} : n \in 1..MaxArgs}

\* The texts a parameter expression refers to: X, my-X, my - X.
ParameterTexts == {<<"X">>, <<"m", "y", "-", "X">>, <<"m", "y", " ", "-", " ", "X">>}

\* [parameters('x')]
ParametersExpr(x) ==
    <<"[", "p", "a", "r", "a", "m", "e", "t", "e", "r", "s", "(", "'">> \o x \o <<"'", ")", "]">>

\* The names normalized: the strings above, the empty string, and the values
\* that are no strings.
NameValues ==
    {Str(n) : n \in PlainNames \cup FormatNames \cup ParameterTexts
                    \cup {ParametersExpr(x) : x \in ParameterTexts} \cup {<<>>}}
    \cup {Null, Num(7)}

\* The length of the run of [\s\-] characters of s that starts at position i.
RECURSIVE RunLen(_, _)
RunLen(s, i) ==
    IF i <= Len(s) /\ s[i] \in Whitespace \cup {"-"} THEN 1 + RunLen(s, i + 1) ELSE 0

\* re.sub(r'[\s\-]+|_-_', '_', name) from position i.
RECURSIVE CollapseFrom(_, _)
CollapseFrom(s, i) ==
    IF i > Len(s) THEN <<>>
    ELSE IF RunLen(s, i) > 0 THEN <<"_">> \o CollapseFrom(s, i + RunLen(s, i))
    ELSE IF i + 2 <= Len(s) /\ SubSeq(s, i, i + 2) = <<"_", "-", "_">>
         THEN <<"_">> \o CollapseFrom(s, i + 3)
    ELSE <<s[i]>> \o CollapseFrom(s, i + 1)

\* normalize_name on a string (a falsy name gives "").
normalize_name(s) == IF s = <<>> THEN <<>> ELSE CollapseFrom(s, 1)

\* A name on its own, and no comparison.
InitName ==
    /\ name_value \in NameValues
    /\ normalized = Null /\ renormalized = Null
    /\ CmpIdle
    /\ FunIdle
    /\ PathIdle
    /\ SaveIdle
    /\ RunIdle

\* normalize_resource_name(name_value)
NormalizeName ==
    /\ pc = "start"
    /\ normalized' = normalize_resource_name(name_value)
    /\ pc' = "normalized"
    /\ UNCHANGED <<cmpVars, pathVars, funVars, saveVars, runVars, name_value, renormalized>>

\* normalize_resource_name of the result.
NormalizeAgain ==
    /\ pc = "normalized"
    /\ renormalized' = normalize_resource_name(normalized)
    /\ pc' = "renormalized"
    /\ UNCHANGED <<cmpVars, pathVars, funVars, saveVars, runVars, name_value, normalized>>

NextName == NormalizeName \/ NormalizeAgain

SpecName == InitName /\ [][NextName]_vars

(***************************************************************************)
(* Properties of name normalization                                        *)
(***************************************************************************)
\* C12: normalizing a normalized name changes nothing, also for a name with
\* more than one suffix token and for a format expression whose result ends in
\* a date suffix.
C12_NormalizeIdempotent ==
    pc = "renormalized" => renormalized = normalized

\* From position p to its end s is `_` and 8 digits, then nothing or `_` and
\* one or more of [a-z0-9].
TrailingSuffixAt(s, p) ==
    /\ p >= 1
    /\ p + DateDigits <= Len(s)
    /\ s[p] = "_"
    /\ AllIn(s, p + 1, p + DateDigits, Digits)
    /\ \/ p + DateDigits = Len(s)
       \/ /\ p + DateDigits + 2 <= Len(s)
          /\ s[p + DateDigits + 1] = "_"
          /\ AllIn(s, p + DateDigits + 2, Len(s), HashChars)

\* C13: a name that is no templating expression loses exactly one trailing
\* suffix `_` + 8 digits (+ `_` + hash) and nothing else, and a name without
\* such a suffix is returned as it is.
C13_OneTrailingSuffix ==
    (/\ pc = "normalized"
     /\ IsStr(name_value)
     /\ name_value.v # <<>>
     /\ name_value.v[1] # "[")
    => LET s == name_value.v
           starts == {p \in 1..Len(s) : TrailingSuffixAt(s, p)}
       IN /\ IsStr(normalized)
          /\ IF starts = {} THEN normalized.v = s
             ELSE \E p \in starts : normalized.v = SubSeq(s, 1, p - 1)

\* The strings of q joined by `/`.
RECURSIVE JoinSlash(_)
JoinSlash(q) ==
    IF Len(q) = 1 THEN q[1] ELSE q[1] \o <<"/">> \o JoinSlash(Tail(q))

\* C14: a format expression of one or two literal arguments normalizes to its
\* resolved string with the date/hash suffix of every argument removed
\* ([format('{0}/{1}', 'P_20250601_ab12cd', 'A')] gives P/A), the value the
\* plain string normalizes to.
C14_FormatArgumentsNormalized ==
    pc = "normalized" =>
        \A n \in 1..2 : \A q \in ArgLists(n) :
            name_value = Str(FormatExpr(Template(n), q))
            => normalized
                  = Str(JoinSlash([i \in 1..n |-> remove_date_suffix(q[i])]))

\* C15: a format expression of n literal arguments, for every n from 1 up,
\* resolves to its template with every placeholder {i} replaced by the i-th
\* argument ([format('{0}/{1}/{2}', 'A', 'B', 'C')] gives A/B/C).
C15_EveryPlaceholderResolved ==
    pc = "normalized" =>
        \A n \in 1..MaxArgs : \A q \in ArgLists(n) :
            name_value = Str(FormatExpr(Template(n), q))
            => normalized = Str(JoinSlash(q))

\* C16: [parameters('X')] normalizes to X with its whitespace/hyphen sequences
\* collapsed to underscores, so a resource of that name and a resource named X
\* get one normalized name and one LogicalId.
C16_ParameterReferenceResolved ==
    pc = "normalized" =>
        \A x \in ParameterTexts :
            name_value = Str(ParametersExpr(x))
            => /\ normalized = Str(normalize_name(x))
               /\ extract_logical_resource_identifier(
                      Resource(IpGroupType, name_value, EmptyDict))
                  = extract_logical_resource_identifier(
                      Resource(IpGroupType, Str(x), EmptyDict))
(***************************************************************************)
(* The processing of one matched pair whose diff is not empty (lines       *)
(* 777-847): the pair differs in some of its scalar values, and the diff   *)
(* reports each of them as a changed value at its path                     *)
(***************************************************************************)
MaxItems == 2

MaxChanges == 2

\* The items of a list: mappings with and without a name, a mapping of the same
\* name whose x is a mapping, a collection holding a list of its own, strings
\* and a number.
ItemPool ==
    {Dict([name |-> Str(<<"r">>), x |-> Num(1)]),
     Dict([name |-> Str(<<"r">>), x |-> Dict([y |-> Num(1)])]),
     Dict([x |-> Num(1)]),
     Dict([name |-> Str(<<"c">>), rules |-> List(<<Dict([name |-> Str(<<"r">>), x |-> Num(1)])>>)]),
     Dict([rules |-> List(<<Dict([x |-> Num(1)])>>)]),
     Str(<<"a">>),
     Str(<<"h", "o", "s", "t", "n", "a", "m", "e">>),
     Num(1)}

\* r is a resource as lines 761-770 leave it.
IsPrepared(r) == ~PreparedRaises(r) /\ Prepared(r) = r

\* The resources: a list under `properties` or at the top, beside a mapping.
PathResources ==
    {r \in {Resource(IpGroupType, Str(<<"N">>), Dict([rules |-> List(items), sku |-> Sku("s")])) :
               items \in SeqsUpTo(ItemPool, MaxItems) \ {<<>>}}
            \cup
            {DictSet(Resource(IpGroupType, Str(<<"N">>), Sku("s")), "rules", List(items)) :
               items \in SeqsUpTo(ItemPool, MaxItems) \ {<<>>}} :
        IsPrepared(r)}

\* The paths of the scalar values of v, which is at path.
RECURSIVE Leaves(_, _)
Leaves(v, path) ==
    IF IsDict(v) THEN UNION {Leaves(v.v[k], Append(path, PKey(k))) : k \in Keys(v)}
    ELSE IF IsList(v) THEN UNION {Leaves(v.v[i], Append(path, PIdx(i - 1))) : i \in DOMAIN v.v}
    ELSE {path}

\* Another value of the type of v.
NewValue(v) == IF IsStr(v) THEN Str(<<"z">>) ELSE Num(2)

\* v, which is at path, with a new value at each of paths.
RECURSIVE Changed(_, _, _)
Changed(v, path, paths) ==
    IF IsDict(v) THEN Dict([k \in Keys(v) |-> Changed(v.v[k], Append(path, PKey(k)), paths)])
    ELSE IF IsList(v)
    THEN List([i \in DOMAIN v.v |-> Changed(v.v[i], Append(path, PIdx(i - 1)), paths)])
    ELSE IF path \in paths THEN NewValue(v)
    ELSE v

\* The sets of at most MaxChanges changed paths of v that leave its type and
\* name alone and give a resource as lines 761-770 leave it.
ChangeSets(v) ==
    {c \in SUBSET {p \in Leaves(v, <<>>) : p[1].key \notin {"type", "name"}} :
        /\ c # {}
        /\ Cardinality(c) <= MaxChanges
        /\ IsPrepared(Changed(v, <<>>, c))}

\* What the diff of v and Changed(v, <<>>, paths) reports.
ChangedValues(v, paths) ==
    {Entry("values_changed", p, get_by_path(v, p), NewValue(get_by_path(v, p))) : p \in paths}

\* The orders a report can list the entries of d in.
Orders(d) ==
    {q \in [1..Cardinality(d) -> d] : \A i, j \in DOMAIN q : q[i] = q[j] => i = j}

InitPath ==
    /\ \E v \in PathResources :
         \E paths \in ChangeSets(v) :
            /\ import_resource = v
            /\ export_resource = Changed(v, <<>>, paths)
            /\ diff_items \in Orders(ChangedValues(v, paths))
    /\ import_minimal = Null /\ export_minimal = Null
    /\ processed_diff = {}
    /\ CmpIdle
    /\ NameIdle
    /\ FunIdle
    /\ SaveIdle
    /\ RunIdle

\* Line 778: extract_minimal_diff(import_resource, export_resource, diff.to_dict())
ExtractMinimalDiff ==
    /\ pc = "start"
    /\ IF ExtractRaises(import_resource, export_resource, diff_items)
       THEN /\ pc' = "raised"
            /\ UNCHANGED <<import_minimal, export_minimal>>
       ELSE /\ import_minimal' =
                 extract_minimal_diff(import_resource, export_resource, diff_items).import_minimal
            /\ export_minimal' =
                 extract_minimal_diff(import_resource, export_resource, diff_items).export_minimal
            /\ pc' = "minimal"
    /\ UNCHANGED <<cmpVars, nameVars, funVars, saveVars, runVars, import_resource, export_resource, diff_items, processed_diff>>

\* Lines 783-835, given the two trees after lines 794-824.
Processed(fi, fe) ==
    IF fi.raised \/ fe.raised
    THEN /\ pc' = "raised"
         /\ UNCHANGED <<import_minimal, export_minimal, processed_diff>>
    ELSE /\ import_minimal' = fi.tree
         /\ export_minimal' = fe.tree
         /\ processed_diff' = ProcessedDiff(diff_items, import_resource, export_resource)
         /\ pc' = "processed"

\* Lines 783-835: every item of the diff goes to processed_diff under its new
\* path, and the values of the changed items are set again in the two trees.
ProcessDiff ==
    /\ pc = "minimal"
    /\ Processed(FixAll(Fixed(import_minimal), ItemsOf(diff_items, {"values_changed"}),
                        "import", import_resource),
                 FixAll(Fixed(export_minimal), ItemsOf(diff_items, {"values_changed"}),
                        "export", import_resource))
    /\ UNCHANGED <<cmpVars, nameVars, funVars, saveVars, runVars, import_resource, export_resource, diff_items>>

NextPath == ExtractMinimalDiff \/ ProcessDiff

SpecPath == InitPath /\ [][NextPath]_vars

\* The path the diff path leads to when each index is replaced by the name of
\* the item it selects in the object cur, if that item is a mapping with a
\* name, and kept otherwise.
RECURSIVE ResolvedFrom(_, _)
ResolvedFrom(path, cur) ==
    IF path = <<>> THEN <<>>
    ELSE IF IsKeyPart(Head(path))
    THEN <<Head(path)>>
         \o ResolvedFrom(Tail(path),
                         IF HasKey(cur, Head(path).key) THEN cur.v[Head(path).key] ELSE Null)
    ELSE IF IsList(cur) /\ Head(path).idx < Len(cur.v)
    THEN <<IF HasKey(cur.v[Head(path).idx + 1], "name")
           THEN [quoted |-> PyStr(cur.v[Head(path).idx + 1].v["name"])]
           ELSE Head(path)>>
         \o ResolvedFrom(Tail(path), cur.v[Head(path).idx + 1])
    ELSE <<Head(path)>> \o ResolvedFrom(Tail(path), Null)

\* C17: path resolution never fails, and it gives every diff path the path in
\* which each index [i] is replaced by the name of the item at position i of
\* the reference object when that item is a mapping with a name, and kept in
\* every other case (a mapping without a name, a string, a number).
C17_PathsResolved ==
    /\ pc # "raised"
    /\ pc = "processed" =>
         {e.path : e \in processed_diff}
           = {ResolvedFrom(diff_items[i].path, import_resource) : i \in DOMAIN diff_items}

\* What a minimal tree holds at a path: Absent when the path leaves the tree.
Absent == [t |-> "absent"]

RECURSIVE HeldAt(_, _)
HeldAt(m, path) ==
    IF path = <<>> THEN m
    ELSE IF IsIdx(path[1])
    THEN IF IsList(m) /\ path[1].idx < Len(m.v) THEN HeldAt(m.v[path[1].idx + 1], Tail(path))
         ELSE Absent
    ELSE IF IsAnyDict(m) /\ path[1] \in DOMAIN AsM(m).v
    THEN HeldAt(AsM(m).v[path[1]], Tail(path))
    ELSE Absent

\* The paths of the values a minimal tree holds (placeholders hold none).
RECURSIVE HeldPaths(_, _)
HeldPaths(m, path) ==
    IF IsAnyDict(m)
    THEN UNION {HeldPaths(AsM(m).v[p], Append(path, p)) : p \in DOMAIN AsM(m).v}
    ELSE IF IsList(m)
    THEN UNION {HeldPaths(m.v[i], Append(path, PIdx(i - 1))) : i \in DOMAIN m.v}
    ELSE {path}

\* The resolved paths of the changed values.
ChangedPaths ==
    {parse_path_with_names(diff_items[i].path, import_resource) : i \in DOMAIN diff_items}

\* C18: after extract_minimal_diff, for every changed value the import tree
\* holds the old value and the export tree the new value at the resolved path,
\* whether its indices were resolved to names or kept, and the trees hold
\* nothing beside the changed values.
C18_MinimalTreesHoldChanges ==
    pc = "minimal" =>
        /\ \A i \in DOMAIN diff_items :
             /\ HeldAt(import_minimal,
                       parse_path_with_names(diff_items[i].path, import_resource))
                  = diff_items[i].old
             /\ HeldAt(export_minimal,
                       parse_path_with_names(diff_items[i].path, import_resource))
                  = diff_items[i].new
        /\ HeldPaths(import_minimal, <<>>) \subseteq ChangedPaths
        /\ HeldPaths(export_minimal, <<>>) \subseteq ChangedPaths

(***************************************************************************)
(* save_comparison_result: the report file of a comparison.  The directory *)
(* Paths.COMPARISON_DIR exists and can be written to.                      *)
(***************************************************************************)
\* The greatest number of a non-empty set.
MaxOf(S) == CHOOSE i \in S : \A j \in S : j <= i

\* os.path.basename(path): what follows the last "/".
basename(path) ==
    SubSeq(path, MaxOf({0} \cup {i \in DOMAIN path : path[i] = "/"}) + 1, Len(path))

\* os.path.splitext(name)[0]: name up to its last ".", when something other
\* than "." comes before that ".".
SplitextRoot(name) ==
    IF \E i \in DOMAIN name : name[i] = "." /\ \E j \in 1..(i - 1) : name[j] # "."
    THEN SubSeq(name, 1, MaxOf({i \in DOMAIN name : name[i] = "."}) - 1)
    ELSE name

\* base_name of line 446
BaseName(import_file) == remove_date_suffix(SplitextRoot(basename(import_file)))

\* The file name of line 447 (inside Paths.COMPARISON_DIR).
OutputFile(import_file, date_only) ==
    <<"c", "o", "m", "p", "a", "r", "i", "s", "o", "n", "_">> \o BaseName(import_file)
    \o <<"_">> \o date_only \o <<".", "j", "s", "o", "n">>

\* The result of a comparison as save_comparison_result reads it: d is the
\* diff of its changed resource (differences.values_changed.resources.*.diff)
\* and raw is differences.raw_diff, {} when it is None.
SaveResult(import_file, export_file, has_differences, d, raw) ==
    [success |-> TRUE, has_differences |-> has_differences,
     import_file |-> import_file, export_file |-> export_file,
     resource_diffs |-> d, raw_diff |-> raw]

FailedResult(import_file, export_file) ==
    [success |-> FALSE, has_differences |-> FALSE,
     import_file |-> import_file, export_file |-> export_file,
     resource_diffs |-> {}, raw_diff |-> {}]

\* A type_changes item of DeepDiff holds old_type and new_type, two Python
\* type objects.
HoldsType(d) == \E e \in d : e.kind = "type_changes"

\* json.dump(result, f, indent=2) returns; it raises TypeError at a type
\* object, after it has written what comes before it.
JsonDumps(res) == ~HoldsType(res.resource_diffs) /\ ~HoldsType(res.raw_diff)

\* What the file holds after open(output_file, 'w') and json.dump: the whole
\* report, or the text up to the object that json.dump raised at.
Written(res) == [complete |-> JsonDumps(res), report |-> res]

\* dir with the file name holding content.
WriteFile(dir, name, content) ==
    [n \in DOMAIN dir \cup {name} |-> IF n = name THEN content ELSE dir[n]]

\* Lines 442-459: COMPARISON_DIR after save_comparison_result(res, to_file).
SavedDir(dir, res, to_file, date_only) ==
    IF ~res.success \/ ~to_file THEN dir
    ELSE WriteFile(dir, OutputFile(res.import_file, date_only), Written(res))

\* save_comparison_result: the summary, as what it says of the comparison and
\* of the file.
save_comparison_result(res, to_file) ==
    IF ~res.success THEN [text |-> "Comparison failed", file |-> "none"]
    ELSE [text |-> IF res.has_differences THEN "Differences found" ELSE "No differences found",
          file |-> IF ~to_file THEN "none"
                   ELSE IF JsonDumps(res) THEN "saved"
                   ELSE "Failed to save comparison result"]

MaxSaves == 3

\* The days of the calendar, in order.
Days ==
    <<<<"2", "0", "2", "5", "0", "6", "0", "1">>, <<"2", "0", "2", "5", "0", "6", "0", "2">>>>

\* arm/X.json, arm/X_20250601.json, arm/Y_20250601_ab12cd.json
ImportFiles ==
    {<<"a", "r", "m", "/", "X", ".", "j", "s", "o", "n">>,
     <<"a", "r", "m", "/", "X">> \o DateA \o <<".", "j", "s", "o", "n">>,
     <<"a", "r", "m", "/", "Y">> \o DateA \o HashA \o <<".", "j", "s", "o", "n">>}

\* arm_export/X.json
ExportFileName ==
    <<"a", "r", "m", "_", "e", "x", "p", "o", "r", "t", "/", "X", ".", "j", "s", "o", "n">>

\* The diffs of a matched resource: none, a changed value, a changed type.
SavedDiffs ==
    {DeepDiff(Sku("s"), Sku("s")), DeepDiff(Sku("s"), Sku("p")),
     DeepDiff(Sku("s"), Dict([sku |-> Num(1)]))}

\* The results handed to save_comparison_result.
SaveResults ==
    {SaveResult(f, ExportFileName, d # {}, d, {}) : f \in ImportFiles, d \in SavedDiffs}
    \cup {FailedResult(f, ExportFileName) : f \in ImportFiles}

InitSave ==
    /\ today = Days[1]
    /\ comparison_dir = <<>>
    /\ save_result = Null /\ save_to_file = FALSE
    /\ summary = Null
    /\ saves = 0
    /\ CmpIdle
    /\ NameIdle
    /\ FunIdle
    /\ PathIdle
    /\ RunIdle

\* save_comparison_result(res, to_file)
SaveComparisonResult ==
    /\ saves < MaxSaves
    /\ \E res \in SaveResults, to_file \in BOOLEAN :
         /\ save_result' = res
         /\ save_to_file' = to_file
         /\ comparison_dir' = SavedDir(comparison_dir, res, to_file, today)
         /\ summary' = save_comparison_result(res, to_file)
    /\ saves' = saves + 1
    /\ UNCHANGED <<pc, cmpVars, nameVars, funVars, pathVars, runVars, today>>

\* Midnight passes.
NextDay ==
    /\ \E i \in 1..(Len(Days) - 1) : today = Days[i] /\ today' = Days[i + 1]
    /\ UNCHANGED <<pc, cmpVars, nameVars, funVars, pathVars, runVars, comparison_dir, save_result, save_to_file,
                   summary, saves>>

NextSave == SaveComparisonResult \/ NextDay

SpecSave == InitSave /\ [][NextSave]_vars

\* The base name of an import file: its name without directory, without
\* ".json" and without the date suffix (_YYYYMMDD or _YYYYMMDD_hash) it ends in.
DocumentBase(import_file) ==
    CHOOSE b \in {SubSeq(basename(import_file), 1, k) : k \in 0..Len(basename(import_file))} :
        \E suffix \in {<<>>, DateA, DateA \o HashA} :
            /\ basename(import_file) = b \o suffix \o <<".", "j", "s", "o", "n">>
            /\ \A other \in {DateA, DateA \o HashA} :
                 ~(Len(other) <= Len(b) /\ SubSeq(b, Len(b) - Len(other) + 1, Len(b)) = other)

\* comparison_{base}_{YYYYMMDD}.json
ReportFile(import_file, day) ==
    <<"c", "o", "m", "p", "a", "r", "i", "s", "o", "n", "_">> \o DocumentBase(import_file)
    \o <<"_">> \o day \o <<".", "j", "s", "o", "n">>

\* C19: a save of a success = true report with saving enabled leaves the
\* report in comparison_{base}_{YYYYMMDD}.json (base: the import file's base
\* name without its date suffix, YYYYMMDD: today) and leaves every other file
\* as it was; so after any sequence of saves there is one file per base and
\* day, holding the report saved last for them.
C19_OneReportPerBaseAndDay ==
    [][(saves' = saves + 1 /\ save_result'.success /\ save_to_file') =>
          comparison_dir'
            = [n \in DOMAIN comparison_dir \cup {ReportFile(save_result'.import_file, today)} |->
                 IF n = ReportFile(save_result'.import_file, today)
                 THEN [complete |-> TRUE, report |-> save_result']
                 ELSE comparison_dir[n]]]_vars

(***************************************************************************)
(* handle_compare_arm: the loop over the matched pairs (lines 913-983).    *)
(* compare_arm_templates runs as the actions of Next between the head of   *)
(* the loop and the handling of its result.                                *)
(***************************************************************************)
MaxMatches == 3

PolicyDoc(props) == Doc(Meta("1"), <<Resource(PolicyType, Str(NameBase), props)>>)

\* A matched pair: the two paths and what is at them.
Match(import_file, import, export) ==
    [import_file |-> import_file, export_file |-> ExportFileName,
     import |-> import, export |-> export]

Loads(doc) == [status |-> "ok", data |-> doc]

\* The pairs: two equal documents, two documents that differ in a value, two
\* that differ in the type of a value, an import file that is missing, an
\* export file that is not UTF-8, an export document with a policy whose name
\* is null.
MatchPool ==
    LET x == <<"a", "r", "m", "/", "X", ".", "j", "s", "o", "n">>
        y == <<"a", "r", "m", "/", "Y">> \o DateA \o HashA \o <<".", "j", "s", "o", "n">>
    IN {Match(x, Loads(PolicyDoc(Sku("s"))), Loads(PolicyDoc(Sku("s")))),
        Match(y, Loads(PolicyDoc(Sku("s"))), Loads(PolicyDoc(Sku("p")))),
        Match(y, Loads(PolicyDoc(Sku("s"))), Loads(PolicyDoc(Dict([sku |-> Num(1)])))),
        Match(x, [status |-> "not_found", data |-> Null], Loads(PolicyDoc(Sku("s")))),
        Match(y, Loads(PolicyDoc(Sku("s"))), [status |-> "bad_encoding", data |-> Null]),
        Match(x, Loads(PolicyDoc(Sku("s"))),
              Loads(Doc(Meta("1"), <<Resource(PolicyType, Null, Sku("s"))>>)))}

InitRun ==
    /\ matches \in SeqsUpTo(MatchPool, MaxMatches)
    /\ include_diff \in BOOLEAN
    /\ save_results \in {"absent", "true", "false"}
    /\ match_index = 0
    /\ successful_comparisons = 0
    /\ run_log = <<>>
    /\ returned = Null
    /\ pc = "run"
    /\ importFile = [status |-> "not_found", data |-> Null]
    /\ exportFile = [status |-> "not_found", data |-> Null]
    /\ import_data = Null /\ export_data = Null
    /\ import_resources = Null /\ export_resources = Null
    /\ diff = {}
    /\ resource_diff = NoResourceDiff
    /\ result = NoReport
    /\ today = Days[1]
    /\ comparison_dir = <<>>
    /\ save_result = Null /\ save_to_file = FALSE
    /\ summary = Null
    /\ saves = 0
    /\ NameIdle
    /\ FunIdle
    /\ PathIdle

Logged(event) == Append(run_log, [pair |-> match_index + 1, event |-> event])

\* Lines 903-907: no pair was found.
ReturnNoMatches ==
    /\ pc = "run"
    /\ matches = <<>>
    /\ returned' = FALSE
    /\ pc' = "returned"
    /\ UNCHANGED <<cmpVars, nameVars, funVars, pathVars, saveVars, matches, include_diff, save_results,
                   match_index, successful_comparisons, run_log>>

\* Lines 916-924: the next pair is announced and compare_arm_templates is
\* called on it.
ComparePair ==
    /\ pc = "run"
    /\ match_index < Len(matches)
    /\ importFile' = matches[match_index + 1].import
    /\ exportFile' = matches[match_index + 1].export
    /\ import_data' = Null /\ export_data' = Null
    /\ import_resources' = Null /\ export_resources' = Null
    /\ diff' = {}
    /\ resource_diff' = NoResourceDiff
    /\ result' = NoReport
    /\ run_log' = Logged("Comparing")
    /\ pc' = "start"
    /\ UNCHANGED <<nameVars, funVars, pathVars, saveVars, matches, include_diff, save_results,
                   match_index, successful_comparisons, returned>>

\* The diffs of the changed resources of a report.
ResourceDiffsOf(report) ==
    UNION {report.values_changed.resources[n].diff : n \in DOMAIN report.values_changed.resources}

\* The result of line 924 as save_comparison_result reads it.
ResultOf(m, report, raw) ==
    IF report.success
    THEN SaveResult(m.import_file, m.export_file, report.has_differences,
                    ResourceDiffsOf(report), raw)
    ELSE FailedResult(m.import_file, m.export_file)

\* save_to_file of line 928
SaveToFile == IF save_results = "absent" THEN TRUE ELSE save_results = "true"

\* Lines 926-963: the result of a successful comparison is saved and counted.
Succeeded(res) ==
    /\ save_result' = res
    /\ save_to_file' = SaveToFile
    /\ comparison_dir' = SavedDir(comparison_dir, res, SaveToFile, today)
    /\ summary' = save_comparison_result(res, SaveToFile)
    /\ saves' = saves + 1
    /\ successful_comparisons' = successful_comparisons + 1
    /\ run_log' = Logged(save_comparison_result(res, SaveToFile).file)

\* Lines 926-967: compare_arm_templates has returned; its result is saved or
\* its error is reported, and the loop goes to the next pair.
FinishPair ==
    /\ pc = "done"
    /\ match_index < Len(matches)
    /\ IF result.success
       THEN Succeeded(ResultOf(matches[match_index + 1], result,
                               IF include_diff THEN diff ELSE {}))
       ELSE /\ run_log' = Logged("Failed to compare")
            /\ UNCHANGED <<comparison_dir, save_result, save_to_file, summary, saves,
                           successful_comparisons>>
    /\ match_index' = match_index + 1
    /\ pc' = "run"
    /\ UNCHANGED <<cmpVars, nameVars, funVars, pathVars, today, matches, include_diff, save_results,
                   returned>>

\* Lines 969-983: the loop is over.
Return ==
    /\ pc = "run"
    /\ matches # <<>>
    /\ match_index = Len(matches)
    /\ returned' = (successful_comparisons > 0)
    /\ pc' = "returned"
    /\ UNCHANGED <<cmpVars, nameVars, funVars, pathVars, saveVars, matches, include_diff, save_results,
                   match_index, successful_comparisons, run_log>>

NextRun == ReturnNoMatches \/ ComparePair \/ Next \/ FinishPair \/ Return

SpecRun == InitRun /\ [][NextRun]_vars

\* Both files of the pair m can be read and hold a document.
PairLoads(m) == ~Falsy(load_json_file(m.import)) /\ ~Falsy(load_json_file(m.export))

\* The events the run logged for pair i, in order.
EventsOf(i) ==
    [k \in 1..Cardinality({n \in DOMAIN run_log : run_log[n].pair = i}) |->
        run_log[CHOOSE n \in DOMAIN run_log :
                    /\ run_log[n].pair = i
                    /\ Cardinality({j \in 1..n : run_log[j].pair = i}) = k].event]

\* C20: no pair stops the run.  The run does not end in an exception, and
\* when it has returned, every matched pair was compared exactly once, in list
\* order; a pair whose files did not load was reported as failed and not
\* saved; every other pair was compared and, saving enabled, saved; and True
\* was returned if and only if some pair was compared successfully.
C20_FailedPairDoesNotStopRun ==
    /\ pc # "raised"
    /\ pc = "returned" =>
         /\ \A k \in DOMAIN run_log : \A l \in DOMAIN run_log :
              k < l => run_log[k].pair <= run_log[l].pair
         /\ \A i \in DOMAIN matches :
              EventsOf(i) = <<"Comparing",
                              IF ~PairLoads(matches[i]) THEN "Failed to compare"
                              ELSE IF SaveToFile THEN "saved"
                              ELSE "none">>
         /\ returned = (\E i \in DOMAIN matches : PairLoads(matches[i]))
         /\ \A n \in DOMAIN comparison_dir :
              \E i \in DOMAIN matches :
                  PairLoads(matches[i]) /\ comparison_dir[n].report.import_file = matches[i].import_file

(***************************************************************************)
(* The indexing family: resources lists that hold rule-collection groups   *)
(* of one group name under different policies, a group named without '/',  *)
(* policies of one base name, an IP group, and items no identifier is      *)
(* computed for                                                            *)
(***************************************************************************)
\* FW1-x
HyphenName == NameBase \o <<"-", "x">>

IndexPool ==
    {Resource(RcgType, Str(QualifiedName(NameBase)), Sku("s")),
     Resource(RcgType, Str(QualifiedName(NameA)), Sku("p")),
     Resource(RcgType, Str(<<"R">>), Sku("s")),
     Resource(PolicyType, Str(NameA), Sku("s")),
     Resource(PolicyType, Str(HyphenName), Sku("p")),
     Resource(IpGroupType, Str(NameBase), Sku("s")),
     Str(<<"R">>),
     Dict([name |-> Str(NameBase), properties |-> Sku("s")]),
     Dict([type |-> PolicyType, properties |-> Sku("p")])}

IndexDocs == {Doc(Meta("1"), rs) : rs \in SeqsUpTo(IndexPool, MaxRes)}

\* Any two documents of the indexing family.
InitIndex ==
    /\ importFile \in {[status |-> "ok", data |-> d] : d \in IndexDocs}
    /\ exportFile \in {[status |-> "ok", data |-> d] : d \in IndexDocs}
    /\ Start
    /\ NameIdle
    /\ FunIdle
    /\ PathIdle
    /\ SaveIdle
    /\ RunIdle

SpecIndex == InitIndex /\ [][Next]_vars

\* The identifier the three cases give a resource with a type and a name.
CaseId(r) ==
    LET ty == r.v["type"]
        n  == normalize_resource_name(r.v["name"]).v
    IN IF ty = RcgType /\ "/" \in Range(n)
       THEN <<"R", "C", "G", ":">> \o LastSegment(n, "/")
       ELSE IF ty = PolicyType
       THEN <<"P", "o", "l", "i", "c", "y", ":">> \o FirstSegment(n, "-")
       ELSE ty.v \o <<":">> \o n

\* The items of a resources value that are mappings with a type and a name.
Identified(x) ==
    {r \in Range(ResourceItems(x)) : IsDict(r) /\ "type" \in Keys(r) /\ "name" \in Keys(r)}

CaseIds(x) == {CaseId(r) : r \in Identified(x)}

\* The group name of a rule-collection group named policy/group.
GroupsOf(x) ==
    {LastSegment(r.v["name"].v, "/") :
        r \in {q \in Identified(x) : q.v["type"] = RcgType /\ "/" \in Range(q.v["name"].v)}}

\* C21: the identifier of a resource is RCG:<last '/'-segment of the
\* normalized name> for a rule-collection group whose normalized name holds a
\* '/', Policy:<the normalized name up to its first '-'> for a policy, and
\* <type>:<normalized name> otherwise, a rule-collection group named without
\* '/' included: the resources of one document only are those whose identifier
\* by these cases is computed for no resource of the other, and two
\* rule-collection groups of one group name are matched whatever their policy
\* segments.
C21_IdentifierCases ==
    pc = "resources" =>
        /\ DOMAIN resource_diff.import_only
             = CaseIds(import_resources) \ CaseIds(export_resources)
        /\ DOMAIN resource_diff.export_only
             = CaseIds(export_resources) \ CaseIds(import_resources)
        /\ DOMAIN resource_diff.values_changed
             \subseteq CaseIds(import_resources) \cap CaseIds(export_resources)
        /\ \A g \in GroupsOf(import_resources) \cap GroupsOf(export_resources) :
              /\ <<"R", "C", "G", ":">> \o g \notin DOMAIN resource_diff.import_only
              /\ <<"R", "C", "G", ":">> \o g \notin DOMAIN resource_diff.export_only

\* Two rule-collection groups R of different policies are matched and reported
\* as changed, next to a group named without '/' and a policy named with '-'
\* that the other document lacks.
C21_Witness ==
    /\ pc = "resources"
    /\ \E r \in Identified(import_resources), q \in Identified(export_resources) :
          /\ r.v["type"] = RcgType /\ q.v["type"] = RcgType
          /\ r.v["name"] # q.v["name"]
          /\ CaseId(r) = <<"R", "C", "G", ":", "R">> /\ CaseId(q) = CaseId(r)
    /\ <<"R", "C", "G", ":", "R">> \in DOMAIN resource_diff.values_changed
    /\ RcgType.v \o <<":", "R">> \in DOMAIN resource_diff.import_only
    /\ <<"P", "o", "l", "i", "c", "y", ":">> \o NameBase \in DOMAIN resource_diff.export_only
    /\ \E r \in Identified(export_resources) : r.v["name"] = Str(HyphenName)

\* The items of a resources value that get an identifier, in list order.
RECURSIVE Kept(_, _)
Kept(rs, keep) ==
    IF rs = <<>> THEN <<>>
    ELSE (IF Head(rs) \in keep THEN <<Head(rs)>> ELSE <<>>) \o Kept(Tail(rs), keep)

WithId(x) == Kept(ResourceItems(x), Identified(x))

\* The items that get none.
WithoutId(x) == Range(ResourceItems(x)) \ Identified(x)

\* C22: an item of a resources list that is no mapping, or has no `type` or no
\* `name`, is in no index and in none of import_only, export_only and
\* values_changed, whatever the other document holds, and has_differences is
\* what it is without the item: the resource differences are those of the two
\* lists without such items.
C22_UnidentifiedIgnored ==
    (pc \in {"resources", "done"} /\ (pc = "done" => result.success)) =>
        LET rd == compare_resource_collections(WithId(import_resources),
                                               WithId(export_resources))
        IN /\ resource_diff = rd
           /\ \A id \in DOMAIN resource_diff.import_only :
                 resource_diff.import_only[id] \notin WithoutId(import_resources)
           /\ \A id \in DOMAIN resource_diff.export_only :
                 resource_diff.export_only[id] \notin WithoutId(export_resources)
           /\ pc = "done" => result.has_differences = HasDifferences(diff, rd)

\* A report without differences for two documents that hold the same IP group,
\* one next to a string, the other next to a mapping without a name.
C22_Witness ==
    /\ pc = "done" /\ result.success
    /\ ~result.has_differences
    /\ \E r \in WithoutId(import_resources) : ~IsDict(r)
    /\ \E r \in WithoutId(export_resources) : IsDict(r) /\ "name" \notin Keys(r)
    /\ Identified(import_resources) # {}
    /\ Identified(import_resources) = Identified(export_resources)

\* The last item of a resources value whose identifier is id.
LastOf(x, id) ==
    LET rs == ResourceItems(x)
        at == {i \in DOMAIN rs : rs[i] \in Identified(x) /\ CaseId(rs[i]) = id}
    IN rs[MaxOf(at)]

\* The items of rs that get an identifier no later item gets.
RECURSIVE Latest(_)
Latest(rs) ==
    IF rs = <<>> THEN <<>>
    ELSE (IF \E i \in DOMAIN Tail(rs) : CaseId(Tail(rs)[i]) = CaseId(Head(rs))
          THEN <<>> ELSE <<Head(rs)>>) \o Latest(Tail(rs))

\* A resources value holds two items of one identifier.
Collides(x) ==
    \E i, j \in DOMAIN WithId(x) : i < j /\ CaseId(WithId(x)[i]) = CaseId(WithId(x)[j])

\* C23: when several resources of one list have the same LogicalId, the index
\* holds one entry for the id, the last of them in list order; the earlier ones
\* are matched with nothing and are in no category: a resource reported for one
\* document only is the last of its id, a changed pair is reported with the
\* diff of the last resource of each list, and the resource differences are
\* those of the lists without the earlier resources.
C23_LastOfIdWins ==
    pc = "resources" =>
        /\ \A id \in DOMAIN resource_diff.import_only :
              resource_diff.import_only[id] = LastOf(import_resources, id)
        /\ \A id \in DOMAIN resource_diff.export_only :
              resource_diff.export_only[id] = LastOf(export_resources, id)
        /\ \A id \in DOMAIN resource_diff.values_changed :
              resource_diff.values_changed[id].diff
                = MatchedDiff(LastOf(import_resources, id), LastOf(export_resources, id))
        /\ resource_diff = compare_resource_collections(Latest(WithId(import_resources)),
                                                        Latest(WithId(export_resources)))

\* The import holds two resources of one identifier and different content and
\* the export the first of them: the id is reported as changed.
C23_Witness ==
    /\ pc = "resources"
    /\ Collides(import_resources)
    /\ LET rs == ResourceItems(import_resources)
       IN /\ Len(rs) = 2 /\ rs[1] # rs[2]
          /\ ResourceItems(export_resources) = <<rs[1]>>
          /\ DOMAIN resource_diff.values_changed = {CaseId(rs[2])}

\* Some set_nested call of lines 731-756 for the items, on the tree m of one
\* side, returns early.
RECURSIVE SomeSkip(_, _, _, _, _)
SomeSkip(m, items, side, import_obj, export_obj) ==
    /\ items # <<>>
    /\ LET path == ParsedPath(Head(items), import_obj, export_obj)
       IN \/ Skips(m, path, IsIdx(path[Len(path)]))
          \/ SomeSkip(set_nested(m, path, ValueFor(Head(items), side, path, import_obj, export_obj)),
                      Tail(items), side, import_obj, export_obj)

\* extract_minimal_diff returns for the pair, after a set_nested call that
\* found the wrong type of container.
SkippedSet ==
    /\ ~ExtractRaises(import_resource, export_resource, diff_items)
    /\ \/ SomeSkip(MEmpty, ImportItems(diff_items), "import", import_resource, export_resource)
       \/ SomeSkip(MEmpty, ExportItems(diff_items), "export", import_resource, export_resource)

\* C24: a set_nested call that finds the wrong type of container returns
\* without raising, extract_minimal_diff processes the remaining entries, and
\* the pair is still reported in values_changed: once extract_minimal_diff has
\* returned after such a call, the processing of the pair does not raise.
C24_SkipTolerated == SkippedSet => pc # "raised"

(***************************************************************************)
(* handle_empty_and_missing on a list of scalars                           *)
(***************************************************************************)
MaxSorted == 3

\* The items: strings, numbers, a boolean, and None, which is no primitive.
SortItems == {Str(<<"a">>), Str(<<"b">>), Num(1), Num(2), Bool(TRUE), Null}

SortInputs == {List(s) : s \in SeqsUpTo(SortItems, MaxSorted)}

InitSort ==
    /\ pc = "start"
    /\ data \in SortInputs
    /\ handled = Unset
    /\ HeapIdle
    /\ CmpIdle
    /\ NameIdle
    /\ PathIdle
    /\ SaveIdle
    /\ RunIdle

\* handled = handle_empty_and_missing(data), lines 855-873.
HandleEmptyAndMissing ==
    /\ pc = "start"
    /\ IF HandleEmptyRaises(data)
       THEN pc' = "raised" /\ UNCHANGED handled
       ELSE pc' = "handled" /\ handled' = handle_empty_and_missing(data)
    /\ UNCHANGED <<cmpVars, nameVars, pathVars, saveVars, runVars, heapVars, data>>

NextSort == HandleEmptyAndMissing

SpecSort == InitSort /\ [][NextSort]_vars

\* The items of s are primitives that compare with each other: all strings, or
\* all numbers and booleans.
Comparable(s) ==
    \/ \A i \in DOMAIN s : IsStr(s[i])
    \/ \A i \in DOMAIN s : s[i].t \in {"num", "bool"}

\* q holds the items of s in ascending order.
SortedOf(q, s) ==
    /\ Len(q) = Len(s)
    /\ \A x \in Range(s) :
          Cardinality({i \in DOMAIN s : s[i] = x}) = Cardinality({i \in DOMAIN q : q[i] = x})
    /\ \A i, j \in DOMAIN q : i < j => ~PyLt(q[j], q[i])

\* What the claim says of a call that returned.
KeptOrSorted ==
    pc = "handled" =>
        IF Comparable(data.v) THEN SortedOf(handled.v, data.v) ELSE handled = data

\* C25: handle_empty_and_missing never raises on a list of scalars: it returns
\* the list sorted when its items are primitives that compare with each other,
\* and in its original order otherwise, a list that mixes strings with numbers
\* or booleans included.
C25_MixedListKept == pc # "raised" /\ KeptOrSorted

\* compare_resource_collections with the two lists exchanged.
Exchanged ==
    compare_resource_collections(ResourceItems(export_resources), ResourceItems(import_resources))

RECURSIVE SetUnlessSkipped(_, _, _, _, _)
SetUnlessSkipped(m, items, side, import_obj, export_obj) ==
    IF items = <<>> THEN m
    ELSE LET path == ParsedPath(Head(items), import_obj, export_obj)
         IN SetUnlessSkipped(
                IF Skips(m, path, IsIdx(path[Len(path)])) THEN m
                ELSE set_nested(m, path, ValueFor(Head(items), side, path, import_obj, export_obj)),
                Tail(items), side, import_obj, export_obj)

\* C28: a set_nested call that returns early on a type mismatch leaves the
\* minimal tree exactly as it was before the call, with no intermediate
\* mapping or list: the trees extract_minimal_diff returns are those of the
\* calls that did not return early.
C28_SkippedSetLeavesTree ==
    pc = "minimal" =>
        /\ import_minimal = SetUnlessSkipped(MEmpty, ImportItems(diff_items), "import",
                                             import_resource, export_resource)
        /\ export_minimal = SetUnlessSkipped(MEmpty, ExportItems(diff_items), "export",
                                             import_resource, export_resource)

\* C29: compare_arm_templates returns success = false only when a file could
\* not be read or parsed: when load_json_file returned a value other than None
\* for both files, the empty mapping included, the report has success = true,
\* and every report with success = false has import_data_loaded or
\* export_data_loaded false.
C29_FailureOnlyWhenUnloaded ==
    pc = "done" =>
        /\ (import_data # Null /\ export_data # Null) => result.success
        /\ ~result.success => (~result.import_data_loaded \/ ~result.export_data_loaded)

(***************************************************************************)
(* find_matching_templates and a run of handle_compare_arm over the pairs  *)
(* it returns                                                              *)
(***************************************************************************)
MaxListed == 3

Json == <<".", "j", "s", "o", "n">>

\* f.endswith('.json')
EndsWithJson(f) == Len(f) >= Len(Json) /\ SubSeq(f, Len(f) - Len(Json) + 1, Len(f)) = Json

\* The files of a listing that end with .json, in its order.
RECURSIVE JsonFiles(_)
JsonFiles(listing) ==
    IF listing = <<>> THEN <<>>
    ELSE (IF EndsWithJson(Head(listing)) THEN <<Head(listing)>> ELSE <<>>)
         \o JsonFiles(Tail(listing))

\* The first export file whose name without extension is base: its position,
\* 0 when there is none (lines 537-546).
FirstMatch(base, export_files) ==
    LET at == {i \in DOMAIN export_files : SplitextRoot(export_files[i]) = base}
    IN IF at = {} THEN 0 ELSE CHOOSE i \in at : \A j \in at : i <= j

\* What the files hold: every import document has sku s; the export document
\* X has sku p and every other export document sku s.
ImportContent(f) == Loads(PolicyDoc(Sku("s")))

ExportContent(f) ==
    Loads(PolicyDoc(Sku(IF f = <<"X">> \o Json THEN "p" ELSE "s")))

\* os.path.join of the two directories
ArmPath(f) == <<"a", "r", "m", "/">> \o f

ArmExportPath(f) == <<"a", "r", "m", "_", "e", "x", "p", "o", "r", "t", "/">> \o f

\* Lines 532-545 for the import files and the export files, in listing order.
RECURSIVE MatchesFrom(_, _)
MatchesFrom(import_files, export_files) ==
    IF import_files = <<>> THEN <<>>
    ELSE LET f == Head(import_files)
             i == FirstMatch(remove_date_suffix(SplitextRoot(f)), export_files)
         IN (IF i = 0 THEN <<>>
             ELSE <<[import_file |-> ArmPath(f), export_file |-> ArmExportPath(export_files[i]),
                     import |-> ImportContent(f), export |-> ExportContent(export_files[i])]>>)
            \o MatchesFrom(Tail(import_files), export_files)

\* find_matching_templates, for what os.listdir returns for the two directories
find_matching_templates(import_listing, export_listing) ==
    MatchesFrom(JsonFiles(import_listing), JsonFiles(export_listing))

\* X.json, X_20250601.json, X_20250715.json, Y_20250601_ab12cd.json, notes.txt
ImportNames ==
    {<<"X">> \o Json, <<"X">> \o DateA \o Json, <<"X">> \o DateB \o Json,
     <<"Y">> \o DateA \o HashA \o Json, <<"n", "o", "t", "e", "s", ".", "t", "x", "t">>}

\* X.json, Y.json
ExportNames == {<<"X">> \o Json, <<"Y">> \o Json}

\* What os.listdir can return for a directory holding at most n of the names:
\* the names of the directory, each once, in any order.
Listings(names, n) ==
    {q \in SeqsUpTo(names, n) : \A i, j \in DOMAIN q : q[i] = q[j] => i = j}

\* A run over what find_matching_templates returns for two directories.
InitMatched ==
    /\ \E il \in Listings(ImportNames, MaxListed), el \in Listings(ExportNames, 2) :
          matches = find_matching_templates(il, el)
    /\ include_diff \in BOOLEAN
    /\ save_results \in {"absent", "true", "false"}
    /\ match_index = 0
    /\ successful_comparisons = 0
    /\ run_log = <<>>
    /\ returned = Null
    /\ pc = "run"
    /\ importFile = [status |-> "not_found", data |-> Null]
    /\ exportFile = [status |-> "not_found", data |-> Null]
    /\ import_data = Null /\ export_data = Null
    /\ import_resources = Null /\ export_resources = Null
    /\ diff = {}
    /\ resource_diff = NoResourceDiff
    /\ result = NoReport
    /\ today = Days[1]
    /\ comparison_dir = <<>>
    /\ save_result = Null /\ save_to_file = FALSE
    /\ summary = Null
    /\ saves = 0
    /\ NameIdle
    /\ FunIdle
    /\ PathIdle

SpecMatched == InitMatched /\ [][NextRun]_vars

\* C30: within one run of handle_compare_arm with saving enabled no report is
\* overwritten by that of another pair: find_matching_templates pairs each
\* import file with at most one export file, and after the run there is, for
\* every pair that was compared successfully, a report file whose import_file
\* is the import file of the pair, also when two import files differ only in
\* their date suffix.
C30_OneReportPerPair ==
    (pc = "returned" /\ SaveToFile) =>
        /\ \A i, j \in DOMAIN matches :
              matches[i].import_file = matches[j].import_file => i = j
        /\ \A i \in DOMAIN matches :
              PairLoads(matches[i]) =>
                 \E n \in DOMAIN comparison_dir :
                     /\ comparison_dir[n].complete
                     /\ comparison_dir[n].report.import_file = matches[i].import_file

(***************************************************************************)
(* Objects: dicts and lists with identity.  A dict or list is an object at *)
(* an address of `objects`; what a dict holds under a key and a list at a  *)
(* position is a reference to an object or a scalar.  An assignment to a   *)
(* key or a position, append and pop change the object at its address, and *)
(* every reference to it sees the change; {} [] dict(x) sorted(x) and a    *)
(* comprehension make a new object.                                        *)
(***************************************************************************)
Ref(a) == [ref |-> a]

IsRef(c) == "ref" \in DOMAIN c

DictObject(items) == [t |-> "dict", v |-> items]

ListObject(items) == [t |-> "list", v |-> items]

\* An item of a dict object: key and what it holds.
Item(k, c) == [k |-> k, c |-> c]

\* isinstance(c, dict), isinstance(c, list)
IsDictAt(h, c) == IsRef(c) /\ h[c.ref].t = "dict"

IsListAt(h, c) == IsRef(c) /\ h[c.ref].t = "list"

\* The result of an expression: the objects after it and its value.
Gives(h, c) == [objects |-> h, value |-> c]

\* A new object.
New(h, object) == Gives(Append(h, object), Ref(Len(h) + 1))

\* A new dict and a new list of the items r gives, made after them.
NewDict(r) == New(r.objects, DictObject(r.value))

NewList(r) == New(r.objects, ListObject(r.value))

\* The position of key k in the items of a dict object, 0 when it has none.
KeyAt(items, k) ==
    IF \E i \in DOMAIN items : items[i].k = k
    THEN CHOOSE i \in DOMAIN items : items[i].k = k
    ELSE 0

\* The keys of a set, in some order.
RECURSIVE KeySeq(_)
KeySeq(S) ==
    IF S = {} THEN <<>>
    ELSE LET k == CHOOSE x \in S : TRUE IN <<k>> \o KeySeq(S \ {k})

\* The objects of the tree x, as json.load builds them.
RECURSIVE Store(_, _)
RECURSIVE StoreItems(_, _, _, _)
RECURSIVE StoreList(_, _, _)
Store(h, x) ==
    IF IsDict(x) THEN NewDict(StoreItems(h, x, KeySeq(Keys(x)), <<>>))
    ELSE IF IsList(x) THEN NewList(StoreList(h, x.v, <<>>))
    ELSE Gives(h, x)

\* acc holds the items stored so far; r is the next one, stored.
StoredItem(r, x, keys, acc) ==
    StoreItems(r.objects, x, keys, Append(acc, Item(PKey(keys[Len(acc) + 1]), r.value)))

StoreItems(h, x, keys, acc) ==
    IF Len(acc) = Len(keys) THEN Gives(h, acc)
    ELSE StoredItem(Store(h, x.v[keys[Len(acc) + 1]]), x, keys, acc)

StoredNext(r, s, acc) == StoreList(r.objects, s, Append(acc, r.value))

StoreList(h, s, acc) ==
    IF Len(acc) = Len(s) THEN Gives(h, acc)
    ELSE StoredNext(Store(h, s[Len(acc) + 1]), s, acc)

\* The tree at c, read by its keys (a name that set_nested used as a key is
\* looked up by no key, see get_by_path).
RECURSIVE ValueAt(_, _)
ValueAt(h, c) ==
    IF ~IsRef(c) THEN c
    ELSE IF h[c.ref].t = "list"
    THEN List([i \in DOMAIN h[c.ref].v |-> ValueAt(h, h[c.ref].v[i])])
    ELSE LET items == h[c.ref].v
         IN Dict([k \in {items[i].k.key : i \in {n \in DOMAIN items : IsKeyPart(items[n].k)}} |->
                    ValueAt(h, items[KeyAt(items, PKey(k))].c)])

ValuesAt(h, cs) == [i \in DOMAIN cs |-> ValueAt(h, cs[i])]

\* sorted(data, key=...): a new list holding the same items.
SortedCopyMutant(h, c, keys) ==
    Gives([h EXCEPT ![c.ref] = ListObject(SortedBy(h[c.ref].v, keys))], c)

SortedCopy(h, c, keys) == New(h, ListObject(SortedBy(h[c.ref].v, keys)))

\* The four passes on objects.  OnEach applies a pass to the items of a list
\* (a list comprehension) and OnItems to the values of a dict (a dict
\* comprehension, or the loop of lines 139-145), one after the other.
RECURSIVE PassOn(_, _, _)
RECURSIVE OnEach(_, _, _, _)
RECURSIVE OnItems(_, _, _, _)
\* acc holds what the pass gave for the items before; r is what it gives for
\* the next one.
PassedNext(r, cs, pass, acc) == OnEach(r.objects, cs, pass, Append(acc, r.value))

OnEach(h, cs, pass, acc) ==
    IF Len(acc) = Len(cs) THEN Gives(h, acc)
    ELSE PassedNext(PassOn(h, cs[Len(acc) + 1], pass), cs, pass, acc)

\* The comprehension over the sorted list (line 174).
OnSorted(sorted, pass) ==
    NewList(OnEach(sorted.objects, sorted.objects[sorted.value.ref].v, pass, <<>>))

\* Under "names" the value of the key 'name' goes through
\* normalize_resource_name, which returns what is no string as it is.
PassedItem(r, items, pass, acc) ==
    OnItems(r.objects, items, pass, Append(acc, Item(items[Len(acc) + 1].k, r.value)))

OnItems(h, items, pass, acc) ==
    IF Len(acc) = Len(items) THEN Gives(h, acc)
    ELSE IF pass = "names" /\ items[Len(acc) + 1].k = PKey("name")
    THEN PassedItem(Gives(h, IF IsRef(items[Len(acc) + 1].c) THEN items[Len(acc) + 1].c
                             ELSE normalize_resource_name(items[Len(acc) + 1].c)),
                    items, pass, acc)
    ELSE PassedItem(PassOn(h, items[Len(acc) + 1].c, pass), items, pass, acc)

\* The items of a dict whose keys are not to be ignored (the filter of the
\* comprehension of line 888).
RECURSIVE NotIgnored(_)
NotIgnored(items) ==
    IF items = <<>> THEN <<>>
    ELSE (IF Head(items).k.key \in KeysToIgnore THEN <<>> ELSE <<Head(items)>>)
         \o NotIgnored(Tail(items))

PassOn(h, c, pass) ==
    IF IsDictAt(h, c)
    THEN NewDict(OnItems(h, IF pass = "ignored" THEN NotIgnored(h[c.ref].v) ELSE h[c.ref].v,
                         pass, <<>>))
    ELSE IF IsListAt(h, c)
    THEN LET s == ValuesAt(h, h[c.ref].v)
         IN IF pass = "handle"
            THEN \* lines 865-869: the items are not descended into
                 IF AllDicts(s) /\ AllHaveName(s) THEN SortedCopy(h, c, NameKeys(s))
                 ELSE IF AllPrimitive(s) THEN SortedCopy(h, c, s)
                 ELSE Gives(h, c)
            ELSE IF pass = "keys" /\ AllDicts(s) /\ SortKeyOf(s) # ""
            THEN \* lines 170-175: sorted_list, then the comprehension over it
                 OnSorted(SortedCopy(h, c, [i \in DOMAIN s |-> s[i].v[SortKeyOf(s)]]), pass)
            ELSE NewList(OnEach(h, h[c.ref].v, pass, <<>>))
    ELSE IF pass = "handle" /\ c = Null THEN New(h, ListObject(<<>>))
    ELSE Gives(h, c)

normalize_resource_names_in_json_on(h, c) == PassOn(h, c, "names")

normalize_keys_for_comparison_on(h, c) == PassOn(h, c, "keys")

remove_ignored_keys_on(h, c) == PassOn(h, c, "ignored")

handle_empty_and_missing_on(h, c) == PassOn(h, c, "handle")

\* dict(x): a new dict holding the same values.
ShallowCopy(h, c) == New(h, h[c.ref])

\* d.pop(k, ...) when k is in d: the dict at c loses the key.
PopKey(h, c, k) ==
    [h EXCEPT ![c.ref] =
        DictObject(SubSeq(@.v, 1, KeyAt(@.v, k) - 1) \o SubSeq(@.v, KeyAt(@.v, k) + 1, Len(@.v)))]

\* Lines 233-239 for one document with its names normalized: the copy loses
\* `resources`; the value is the copy.
Popped(copy, k) ==
    IF KeyAt(copy.objects[copy.value.ref].v, k) = 0 THEN copy
    ELSE Gives(PopKey(copy.objects, copy.value, k), copy.value)

pop_resources_on(h, c) == Popped(ShallowCopy(h, c), PKey("resources"))

(***************************************************************************)
(* compare_resource_collections on objects                                 *)
(***************************************************************************)
\* What a step leaves: the objects, and whether it raised.
Ok(h) == [objects |-> h, raised |-> FALSE]

Raised(h) == [objects |-> h, raised |-> TRUE]

\* d[k], for a key the dict at d has.
Held(h, d, k) == h[d.ref].v[KeyAt(h[d.ref].v, k)].c

\* d[i] = value on the list at d, d[k] = value on the dict at d.
SetItem(h, d, i, value) ==
    [h EXCEPT ![d.ref] = ListObject([h[d.ref].v EXCEPT ![i] = value])]

SetKey(h, d, k, value) ==
    [h EXCEPT ![d.ref] =
        DictObject(IF KeyAt(h[d.ref].v, k) = 0 THEN Append(h[d.ref].v, Item(k, value))
                   ELSE [h[d.ref].v EXCEPT ![KeyAt(h[d.ref].v, k)] = Item(k, value)])]

\* while len(d) <= key: d.append({})
RECURSIVE GrowOn(_, _, _)
GrowOn(h, d, key) ==
    IF Len(h[d.ref].v) > key THEN h
    ELSE LET e == New(h, DictObject(<<>>))
         IN GrowOn([e.objects EXCEPT ![d.ref] = ListObject(Append(h[d.ref].v, e.value))], d, key)

\* d[key] = {} if not isinstance(path[-1], int) else []  (line 698)
WithKey(h, d, k, lastInt) ==
    LET e == New(h, IF lastInt THEN ListObject(<<>>) ELSE DictObject(<<>>))
    IN SetKey(e.objects, d, k, e.value)

\* set_nested on objects: the objects after the call.
RECURSIVE SetNestedOn(_, _, _, _, _)
SetNestedOn(h, d, path, value, lastInt) ==
    IF IsIdx(path[1])
    THEN IF ~IsListAt(h, d) THEN h
         ELSE IF Len(path) = 1
         THEN SetItem(GrowOn(h, d, path[1].idx), d, path[1].idx + 1, value)
         ELSE SetNestedOn(GrowOn(h, d, path[1].idx),
                          GrowOn(h, d, path[1].idx)[d.ref].v[path[1].idx + 1],
                          Tail(path), value, lastInt)
    ELSE IF ~IsDictAt(h, d) THEN h
         ELSE IF Len(path) = 1 THEN SetKey(h, d, path[1], value)
         ELSE IF KeyAt(h[d.ref].v, path[1]) # 0
         THEN SetNestedOn(h, Held(h, d, path[1]), Tail(path), value, lastInt)
         ELSE SetNestedOn(WithKey(h, d, path[1], lastInt),
                          Held(WithKey(h, d, path[1], lastInt), d, path[1]),
                          Tail(path), value, lastInt)

set_nested_on(h, d, path, value) == SetNestedOn(h, d, path, value, IsIdx(path[Len(path)]))

\* get_by_path on objects: what is at the path, None when the path leaves obj.
RECURSIVE get_by_path_on(_, _, _)
get_by_path_on(h, obj, path) ==
    IF path = <<>> THEN obj
    ELSE IF IsListAt(h, obj) /\ IsIdx(path[1])
    THEN IF path[1].idx < Len(h[obj.ref].v)
         THEN get_by_path_on(h, h[obj.ref].v[path[1].idx + 1], Tail(path))
         ELSE Null
    ELSE IF IsDictAt(h, obj) /\ ~IsIdx(path[1]) /\ KeyAt(h[obj.ref].v, path[1]) # 0
    THEN get_by_path_on(h, Held(h, obj, path[1]), Tail(path))
    ELSE Null

\* What DeepDiff reports at a path of its own (keys and positions) of the
\* tree at c: the object there, not a copy of it.
RECURSIVE ChildAt(_, _, _)
ChildAt(h, c, path) ==
    IF path = <<>> THEN c
    ELSE IF IsIdx(path[1]) THEN ChildAt(h, h[c.ref].v[path[1].idx + 1], Tail(path))
    ELSE ChildAt(h, Held(h, c, path[1]), Tail(path))

\* The entry e of the diff of the trees at ic and ec, holding their objects.
EntryOn(h, e, ic, ec) ==
    [e EXCEPT !.old = IF e.kind \in AddedKinds THEN Null ELSE ChildAt(h, ic, e.path),
              !.new = IF e.kind \in {"dictionary_item_removed", "iterable_item_removed"} THEN Null
                      ELSE IF e.kind = "repetition_change" THEN ChildAt(h, ic, e.path)
                      ELSE ChildAt(h, ec, e.path)]

EntriesOn(h, items, ic, ec) == [i \in DOMAIN items |-> EntryOn(h, items[i], ic, ec)]

\* The items in the order lines 731-756 take them.
MinimalItems(items) ==
    ItemsOf(items, {"values_changed"}) \o ItemsOf(items, {"dictionary_item_added"})
    \o ItemsOf(items, {"dictionary_item_removed"}) \o ItemsOf(items, {"iterable_item_added"})
    \o ItemsOf(items, {"iterable_item_removed"})

\* Lines 731-756 for one item with its parsed path.
MinimalStep(h, e, path, im, em, ic, ec) ==
    IF e.kind = "values_changed"
    THEN set_nested_on(set_nested_on(h, im, path, e.old), em, path, e.new)
    ELSE IF e.kind = "dictionary_item_added"
    THEN set_nested_on(h, em, path, get_by_path_on(h, ec, path))
    ELSE IF e.kind = "dictionary_item_removed"
    THEN set_nested_on(h, im, path, get_by_path_on(h, ic, path))
    ELSE IF e.kind = "iterable_item_added" THEN set_nested_on(h, em, path, e.new)
    ELSE set_nested_on(h, im, path, e.old)

\* parse_path_with_names of the entry e, against the tree as it is now.
ParsedOn(h, e, ic, ec) ==
    ParseFrom(Tokens(e.path), ValueAt(h, IF e.kind \in AddedKinds THEN ec ELSE ic))

\* extract_minimal_diff on objects: im and em are the two new dicts.
RECURSIVE MinimalOn(_, _, _, _, _, _)
MinimalOn(s, items, im, em, ic, ec) ==
    IF items = <<>> \/ s.raised THEN s
    ELSE IF ParsedOn(s.objects, Head(items), ic, ec).raised
            \/ ParsedOn(s.objects, Head(items), ic, ec).parts = <<>>
    THEN Raised(s.objects)
    ELSE MinimalOn(Ok(MinimalStep(s.objects, Head(items),
                                  ParsedOn(s.objects, Head(items), ic, ec).parts,
                                  im, em, ic, ec)),
                   Tail(items), im, em, ic, ec)

\* Lines 809-810 on the object obj.
FixApplyOn(h, obj, last, value) ==
    IF IsDictAt(h, obj)
    THEN Ok(IF KeyAt(h[obj.ref].v, last) # 0 THEN SetKey(h, obj, last, value) ELSE h)
    ELSE IF IsListAt(h, obj)
    THEN IF ~ListHolds(ValuesAt(h, h[obj.ref].v), last) THEN Ok(h)
         ELSE IF IsIdx(last) /\ last.idx < Len(h[obj.ref].v)
         THEN Ok(SetItem(h, obj, last.idx + 1, value))
         ELSE Raised(h)
    ELSE IF IsStr(obj)
    THEN IF IsIdx(last) \/ (IsStrPart(last) /\ ~IsKeyPart(last) /\ Contains(obj.v, last.name.v))
         THEN Raised(h) ELSE Ok(h)
    ELSE Raised(h)

\* Lines 799-810 on objects.
RECURSIVE FixOn(_, _, _, _)
FixOn(h, obj, path, value) ==
    IF Len(path) = 1 THEN FixApplyOn(h, obj, path[1], value)
    ELSE IF IsIdx(path[1]) /\ IsListAt(h, obj) /\ path[1].idx < Len(h[obj.ref].v)
    THEN FixOn(h, h[obj.ref].v[path[1].idx + 1], Tail(path), value)
    ELSE IF IsStrPart(path[1]) /\ IsDictAt(h, obj) /\ KeyAt(h[obj.ref].v, path[1]) # 0
    THEN FixOn(h, Held(h, obj, path[1]), Tail(path), value)
    ELSE IF Len(path) = 2 THEN FixApplyOn(h, obj, path[2], value)
    ELSE Ok(h)

\* Lines 794-824 for one values_changed item with its parsed path: the import
\* tree, then the export tree.
FixBoth(h, e, path, im, em) ==
    IF Len(path) < 2 THEN Ok(h)
    ELSE IF FixOn(h, im, path, e.old).raised THEN FixOn(h, im, path, e.old)
    ELSE FixOn(FixOn(h, im, path, e.old).objects, em, path, e.new)

\* Lines 785-835 on objects: every path that is parsed, and the fix for the
\* values_changed items.
RECURSIVE ProcessedOn(_, _, _, _, _, _)
ProcessedOn(s, items, im, em, ic, ec) ==
    IF items = <<>> \/ s.raised THEN s
    ELSE IF Head(items).kind \notin ParsedKinds
    THEN ProcessedOn(s, Tail(items), im, em, ic, ec)
    ELSE IF ParsedOn(s.objects, Head(items), ic, ec).raised THEN Raised(s.objects)
    ELSE IF Head(items).kind # "values_changed"
    THEN ProcessedOn(s, Tail(items), im, em, ic, ec)
    ELSE ProcessedOn(FixBoth(s.objects, Head(items),
                             ParsedOn(s.objects, Head(items), ic, ec).parts, im, em),
                     Tail(items), im, em, ic, ec)

\* Lines 761-770 on objects for one resource: a copy of the dict, then the
\* three passes.
Then(r, pass) == PassOn(r.objects, r.value, pass)

PreparedOn(h, c) == Then(Then(Then(ShallowCopy(h, c), "names"), "ignored"), "handle")

\* Lines 778-835 for a prepared pair at ic and ec and the items of its diff:
\* the two minimal trees are new dicts.
DiffTrees(im, em, items, ic, ec) ==
    ProcessedOn(MinimalOn(Ok(em.objects), MinimalItems(items), im, em.value, ic, ec),
                items, im, em.value, ic, ec)

DiffFrom(im, items, ic, ec) ==
    DiffTrees(im.value, New(im.objects, DictObject(<<>>)), items, ic, ec)

DiffOn(h, items, ic, ec) == DiffFrom(New(h, DictObject(<<>>)), items, ic, ec)

\* Lines 761-847 for one matched pair at ci and ce; order lists the entries of
\* its diff as the report does.
PairPrepared(ic, ec, order) ==
    IF order = <<>> THEN Ok(ec.objects)
    ELSE DiffOn(ec.objects, EntriesOn(ec.objects, order, ic, ec.value), ic, ec.value)

PairFrom(ic, ce, order) == PairPrepared(ic.value, PreparedOn(ic.objects, ce), order)

PairOn(h, ci, ce, order) == PairFrom(PreparedOn(h, ci), ce, order)

\* The loop of line 760 over the common identifiers ids, in their order; il and
\* el hold the resource objects by identifier and orders the diff of each pair.
RECURSIVE PairsOn(_, _, _, _, _)
PairsOn(s, ids, il, el, orders) ==
    IF ids = <<>> \/ s.raised THEN s
    ELSE PairsOn(PairOn(s.objects, il[Head(ids)], el[Head(ids)], orders[Head(ids)]),
                 Tail(ids), il, el, orders)

\* compare_resource_collections on the lists at irs and ers: the indexes hold
\* the resource objects themselves.
compare_resource_collections_on(h, irs, ers, orders) ==
    PairsOn(Ok(h), KeySeq(DOMAIN orders),
            IndexBy(h[irs.ref].v, IdSeq(ValuesAt(h, h[irs.ref].v))),
            IndexBy(h[ers.ref].v, IdSeq(ValuesAt(h, h[ers.ref].v))),
            orders)

(***************************************************************************)
(* Calls of the four passes, of lines 233-239 and of                       *)
(* compare_resource_collections, on objects                                *)
(***************************************************************************)
MaxHeld == 2

NamedRule(n, x) == Dict([name |-> Str(<<n>>), x |-> x])

\* An IP group N with the properties props.
Group(props) == Resource(IpGroupType, Str(<<"N">>), props)

TwoRules == List(<<NamedRule("r", Num(1)), NamedRule("q", Num(1))>>)

\* Resources of one identifier that differ in a rule, in a scalar, in keys
\* and in the order of a list, with a dependsOn and a null; a resource whose
\* name is an empty list and that holds a mapping under `name`; an item that
\* is no mapping.
HeldResources ==
    {Group(Dict([rules |-> TwoRules, sku |-> Str(<<"s">>)])),
     Group(Dict([rules |-> List(<<NamedRule("r", Num(2)), NamedRule("q", Num(1))>>),
                 sku |-> Str(<<"s">>)])),
     Group(Dict([rules |-> TwoRules, sku |-> Str(<<"p">>)])),
     Group(Dict([rules |-> TwoRules, sku |-> Str(<<"s">>),
                 tags |-> List(<<Str(<<"b">>), Str(<<"a">>)>>),
                 extra |-> Dict([y |-> Num(1)])])),
     DictSet(DictSet(Group(Sku("s")), "dependsOn", List(<<Str(<<"d">>)>>)), "note", Null),
     Resource(IpGroupType, List(<<>>), Dict([name |-> Dict([y |-> Num(1)])])),
     Str(<<"R">>)}

HeldLists == {List(rs) : rs \in SeqsUpTo(HeldResources, MaxHeld)}

\* What a pass is called with: a resource, a list of resources, a list of
\* scalars, a scalar.
PassInputs == HeldResources \cup HeldLists \cup SortInputs \cup {Null, Num(1)}

\* The documents of lines 233-239: with resources and without.
HeldDocs == {Doc(Meta("1"), l.v) : l \in HeldLists} \cup {Dict(Meta("1"))}

\* Lines 621-770 raise before any diff is made.
RaisesEarly(irs, ers) ==
    \/ IndexRaises(irs) \/ IndexRaises(ers)
    \/ \E id \in CommonIds(extract_logical_resources(irs), extract_logical_resources(ers)) :
          \/ PreparedRaises(extract_logical_resources(irs)[id])
          \/ PreparedRaises(extract_logical_resources(ers)[id])

\* The categories of a report, in the order MinimalItems takes them.
KindRank(kind) ==
    IF kind = "values_changed" THEN 1
    ELSE IF kind = "dictionary_item_added" THEN 2
    ELSE IF kind = "dictionary_item_removed" THEN 3
    ELSE IF kind = "iterable_item_added" THEN 4
    ELSE IF kind = "iterable_item_removed" THEN 5
    ELSE 6

\* The orders a report lists the entries of d in: a report is a mapping from
\* category to the entries of the category, so the entries of one category
\* come together, in any order.
ReportOrders(d) ==
    {q \in Orders(d) :
        \A i, j \in DOMAIN q : i < j => KindRank(q[i].kind) <= KindRank(q[j].kind)}

\* The orders the reports of the matched pairs of the indexes il and el can
\* list their entries in, by identifier.
PairOrders(il, el) ==
    {f \in [CommonIds(il, el) ->
              UNION {ReportOrders(MatchedDiff(il[id], el[id])) : id \in CommonIds(il, el)}] :
        \A id \in CommonIds(il, el) : f[id] \in ReportOrders(MatchedDiff(il[id], el[id]))}

\* The calls: the function, the trees it is called with, and for
\* compare_resource_collections the orders of the reports.
Call(fn, trees, orders) == [fn |-> fn, trees |-> trees, orders |-> orders]

PassNames == {"normalize_resource_names_in_json", "normalize_keys_for_comparison",
              "remove_ignored_keys", "handle_empty_and_missing"}

PassCalls == {Call(fn, <<x>>, <<>>) : fn \in PassNames, x \in PassInputs}

PopCalls == {Call("pop_resources", <<d>>, <<>>) : d \in HeldDocs}

CompareCalls ==
    UNION {IF RaisesEarly(i.v, e.v)
           THEN {Call("compare_resource_collections", <<i, e>>, <<>>)}
           ELSE {Call("compare_resource_collections", <<i, e>>, o) :
                   o \in PairOrders(extract_logical_resources(i.v),
                                    extract_logical_resources(e.v))} :
           i \in HeldLists, e \in HeldLists}

\* The argument objects of a call, as json.load made them: the objects, and
\* the arguments in order.
RECURSIVE StoreAll(_, _, _)
StoredTree(r, trees, acc) == StoreAll(r.objects, trees, Append(acc, r.value))

StoreAll(h, trees, acc) ==
    IF Len(acc) = Len(trees) THEN Gives(h, acc)
    ELSE StoredTree(Store(h, trees[Len(acc) + 1]), trees, acc)

\* The call c is about to be made on the stored arguments r.
Calling(c, r) ==
    /\ objects = r.objects
    /\ called = [fn |-> c.fn, args |-> r.value, orders |-> c.orders]

InitHeap ==
    /\ \E c \in PassCalls \cup PopCalls \cup CompareCalls :
         Calling(c, StoreAll(<<>>, c.trees, <<>>))
    /\ objects_before = objects
    /\ call_result = Unset
    /\ data = Unset /\ handled = Unset
    /\ CmpIdle
    /\ NameIdle
    /\ PathIdle
    /\ SaveIdle
    /\ RunIdle

\* The call returns value and leaves the objects h.
Returns(r) ==
    /\ pc' = "returned"
    /\ objects' = r.objects
    /\ call_result' = r.value

Raises(h) ==
    /\ pc' = "raised"
    /\ objects' = h
    /\ UNCHANGED call_result

\* The call ends as the steps s end.
Ends(s) == IF s.raised THEN Raises(s.objects) ELSE Returns(Gives(s.objects, Null))

HeapFrame == UNCHANGED <<cmpVars, nameVars, pathVars, saveVars, runVars, sortVars,
                         objects_before, called>>

\* normalize_resource_names_in_json(args[0])
CallNormalizeNames ==
    /\ pc = "start" /\ called # Unset /\ called.fn = "normalize_resource_names_in_json"
    /\ Returns(normalize_resource_names_in_json_on(objects, called.args[1]))
    /\ HeapFrame

\* normalize_keys_for_comparison(args[0])
CallNormalizeKeys ==
    /\ pc = "start" /\ called # Unset /\ called.fn = "normalize_keys_for_comparison"
    /\ IF NormalizeKeysRaises(ValueAt(objects, called.args[1]))
       THEN Raises(objects)
       ELSE Returns(normalize_keys_for_comparison_on(objects, called.args[1]))
    /\ HeapFrame

\* remove_ignored_keys(args[0], keys_to_ignore)
CallRemoveIgnored ==
    /\ pc = "start" /\ called # Unset /\ called.fn = "remove_ignored_keys"
    /\ Returns(remove_ignored_keys_on(objects, called.args[1]))
    /\ HeapFrame

\* handle_empty_and_missing(args[0])
CallHandleEmpty ==
    /\ pc = "start" /\ called # Unset /\ called.fn = "handle_empty_and_missing"
    /\ IF HandleEmptyRaises(ValueAt(objects, called.args[1]))
       THEN Raises(objects)
       ELSE Returns(handle_empty_and_missing_on(objects, called.args[1]))
    /\ HeapFrame

\* Lines 233-239 for the document args[0].
CallPopResources ==
    /\ pc = "start" /\ called # Unset /\ called.fn = "pop_resources"
    /\ Returns(pop_resources_on(objects, called.args[1]))
    /\ HeapFrame

\* compare_resource_collections(args[0], args[1]); the value is kept as None
\* here, the report being a new dict.
CallCompareResources ==
    /\ pc = "start" /\ called # Unset /\ called.fn = "compare_resource_collections"
    /\ IF RaisesEarly(ValueAt(objects, called.args[1]).v, ValueAt(objects, called.args[2]).v)
       THEN Raises(objects)
       ELSE Ends(compare_resource_collections_on(objects, called.args[1], called.args[2],
                                                 called.orders))
    /\ HeapFrame

NextHeap ==
    \/ CallNormalizeNames
    \/ CallNormalizeKeys
    \/ CallRemoveIgnored
    \/ CallHandleEmpty
    \/ CallPopResources
    \/ CallCompareResources

SpecHeap == InitHeap /\ [][NextHeap]_vars

\* C26: when normalize_resource_names_in_json, normalize_keys_for_comparison,
\* remove_ignored_keys, handle_empty_and_missing, the removal of `resources`
\* from a document or compare_resource_collections has returned, every object
\* that existed before the call is as it was: the argument trees are unchanged,
\* and what was added, removed or set was so in objects made during the call.
C26_ArgumentsUnchanged ==
    pc = "returned" =>
        /\ Len(objects) >= Len(objects_before)
        /\ \A a \in DOMAIN objects_before : objects[a] = objects_before[a]

\* A pass has returned a list in another order than its argument's, and
\* compare_resource_collections has returned after building minimal trees.
C26_Witness ==
    /\ pc = "returned"
    /\ Len(objects) > Len(objects_before)
    /\ \/ /\ called.fn = "handle_empty_and_missing"
          /\ IsListAt(objects, called.args[1])
          /\ ValueAt(objects, call_result) # ValueAt(objects, called.args[1])
       \/ /\ called.fn = "compare_resource_collections"
          /\ \E id \in DOMAIN called.orders : called.orders[id] # <<>>

=============================================================================
